---- MODULE Spec2Model ----
(***************************************************************************)
(* Model of the step-based state machine engine of the bridge relayer      *)
(* (package state: NewStateMachine, checkArgs, executeLoop, executeStep,   *)
(* getNextStep, Close).                                                    *)
(*                                                                         *)
(* Every machine owns one background goroutine running executeLoop.  The   *)
(* goroutine's position is pc[m]:                                          *)
(*   "new"          NewStateMachine has not been called yet                *)
(*   "failed"       NewStateMachine returned (nil, err)                    *)
(*   "spawned"      `go sm.executeLoop(ctx)` done, goroutine not yet run   *)
(*   "select"       top of the for loop, before time.After is evaluated    *)
(*   "armed"        time.After evaluated, select not yet polled            *)
(*   "blocked"      select found no ready case and parked the goroutine    *)
(*   "timer_chosen" select received from the timer channel                 *)
(*   "executing"    inside currentStep.Execute(ctx)                        *)
(*   "closing"      select received from ctx.Done()                        *)
(*   "stopping"     executeStep returned an error                          *)
(*   "terminated"   executeLoop returned, deferred Unset has run           *)
(***************************************************************************)
EXTENDS Integers, FiniteSets, Sequences, TLC

\* ------------------------------------------------------------------ bounds
\* number of poll-timer expirations explored per machine
MaxExec == 3
\* number of Close() calls explored per machine
MaxClose == 2
\* successful PerformActionOnElrond calls counted per relayer
MaxPerform == 2
\* deposits of the batches that are cloned
MaxDeposits == 2
\* signatures the chain asks for before the action may be performed
Quorum == 2
\* deposits of the batches that are transferred
MaxTransfers == 2
\* signatures held for a message hash
MaxSignatures == 2

\* ------------------------------------------------------------- value sets
Machines == {"ethToElrond", "elrondToEth"}

\* identifiers that may be keys of a step graph
Identifiers == {"A", "B"}
\* identifiers a step or a caller may produce; "Z" is a key of no graph
AnyIdentifiers == Identifiers \cup {"Z"}

NilStep == "nil"
Absent == "absent"
StepObjects == {"s1", "s2"}
MapValues == StepObjects \cup {NilStep, Absent}

NoIdentifier == "none"

\* errors are records: the sentinel they wrap and the identifier they name
Err(base, id) == [base |-> base, id |-> id]
NoErr == Err("nil", "")
ErrNilStepsMap == Err("ErrNilStepsMap", "")
ErrNilLogger == Err("ErrNilLogger", "")
ErrNilStep(id) == Err("ErrNilStep", id)
ErrStepNotFound(id) == Err("ErrStepNotFound", id)

\* relay.MachineStates: a map from identifier to Step; Absent marks a
\* missing key, NilStep a key holding a nil Step
MachineStates == [Identifiers -> MapValues]
EmptyStates == [i \in Identifiers |-> Absent]
Keys(states) == {i \in DOMAIN states : states[i] # Absent}
Values(states) == {states[i] : i \in Keys(states)}

\* ArgsStateMachine (name and duration do not influence control flow)
ArgsStateMachine == [stepsNil : BOOLEAN, Steps : MachineStates,
                     StartStateIdentifier : AnyIdentifiers, logNil : BOOLEAN]
ValidArgs(a) == (a.stepsNil => a.Steps = EmptyStates)
AllArgs == {a \in ArgsStateMachine : ValidArgs(a)}

VARIABLES
    args,          \* arguments handed to NewStateMachine
    pc,            \* position of the constructor / loop goroutine
    newErr,        \* error returned by NewStateMachine
    handle,        \* TRUE when NewStateMachine returned a machine
    steps,         \* sm.steps
    currentStep,   \* sm.currentStep
    cancelled,     \* the context created by the constructor is done
    loopStatus,    \* sm.loopStatus
    timerReady,    \* the channel of the pending time.After holds a value
    stepErr,       \* error of the last executeStep
    intervals,     \* poll-timer expirations so far
    started,       \* Step.Execute calls begun so far
    inFlight,      \* Step.Execute calls begun and not yet returned
    executedStep,  \* the step whose Execute was begun last
    lastReturned,  \* identifier returned by the last finished Execute
    closeCalls,    \* Close() calls so far
    closeErr,      \* result of the last Close()
    \* one Execute of one step against a stubbed Executor
    stub,          \* what the Executor answers to each call
    ran,           \* the step that was executed, "none" before
    result,        \* identifier returned and Executor calls made
    twinResult,    \* the same for an Executor differing in MyTurnAsLeader only
    \* several relayers in the set-status phase against one chain
    relayerStep,       \* identifier of each relayer's current step
    signed,        \* relayers whose signature the chain holds
    txPending,     \* a perform transaction was sent and is not yet executed
    performed,     \* the chain has executed the action
    leader,        \* the relayer whose turn it is
    performCalls,  \* successful PerformActionOnElrond calls of each relayer
    \* a TransferBatch and its clone in memory
    heap,          \* the allocated objects, by address
    original,      \* address of the batch B
    cloned,        \* address of B.Clone(), Nil before the call
    viewB,         \* the field values of B when Clone returned
    viewC,         \* the field values of the clone when Clone returned
    touched,       \* the batch that was mutated after the call, "none" before
    \* the batch validator
    bvArgs,        \* ArgsBatchValidator handed to NewBatchValidator
    bvState,       \* "new", "built" or "rejected"
    bvErr,         \* error returned by NewBatchValidator
    requestTime,   \* bv.requestTime of the validator that was built
    reply,         \* how the request of the last ValidateBatch went
    validation,    \* what the last ValidateBatch returned
    \* the Ethereum client
    transferArgs,  \* the call of ExecuteTransfer and the answers it gets
    transferResult \* what ExecuteTransfer returned and sent

engineVars == <<args, pc, newErr, handle, steps, currentStep, cancelled, loopStatus,
                timerReady, stepErr, intervals, started, inFlight, executedStep,
                lastReturned, closeCalls, closeErr>>

stepVars == <<stub, ran, result, twinResult>>

relayerVars == <<relayerStep, signed, txPending, performed, leader, performCalls>>

cloneVars == <<heap, original, cloned, viewB, viewC, touched>>

validatorVars == <<bvArgs, bvState, bvErr, requestTime, reply, validation>>

transferVars == <<transferArgs, transferResult>>

clientVars == <<cloneVars, validatorVars, transferVars>>

vars == <<engineVars, stepVars, relayerVars, clientVars>>

\* ------------------------------------------------------------ pure helpers
\* getNextStep without the `ok` test: a missing key yields the zero Step
\* and no error
getNextStepUnchecked(states, identifier) ==
    [step |-> IF identifier \in Keys(states) THEN states[identifier] ELSE NilStep,
     err |-> NoErr]

\* getNextStep: look the identifier up in the graph
getNextStep(states, identifier) ==
    IF identifier \in Keys(states)
    THEN [step |-> states[identifier], err |-> NoErr]
    ELSE [step |-> NilStep, err |-> ErrStepNotFound(identifier)]

\* checkArgs with the logger test moved to the front
checkArgsLoggerFirst(a) ==
    IF a.logNil THEN {ErrNilLogger}
    ELSE IF a.stepsNil THEN {ErrNilStepsMap}
    ELSE IF \E i \in Keys(a.Steps) : a.Steps[i] = NilStep
         THEN {ErrNilStep(i) : i \in {k \in Keys(a.Steps) : a.Steps[k] = NilStep}}
         ELSE {NoErr}

\* checkArgs without the range over the steps
checkArgsSkipsNilStep(a) ==
    IF a.stepsNil THEN {ErrNilStepsMap}
    ELSE IF a.logNil THEN {ErrNilLogger}
         ELSE {NoErr}

\* checkArgs: the set of errors it may return (more than one only when
\* several keys hold a nil step: Go ranges over a map in no fixed order)
checkArgs(a) ==
    IF a.stepsNil THEN {ErrNilStepsMap}
    ELSE IF \E i \in Keys(a.Steps) : a.Steps[i] = NilStep
         THEN {ErrNilStep(i) : i \in {k \in Keys(a.Steps) : a.Steps[k] = NilStep}}
         ELSE IF a.logNil THEN {ErrNilLogger}
              ELSE {NoErr}

\* executeLoop that logs the error of executeStep and loops on
LoopIgnoresError(err) == "select"

\* executeLoop that runs the next step without waiting for the timer
LoopSkipsTimer(err) == IF err = NoErr THEN "timer_chosen" ELSE "stopping"

\* executeLoop that returns after its first step whatever executeStep said
LoopStopsAfterStep(err) == "stopping"

\* executeLoop after executeStep: return on error, else loop again
LoopAfterExecuteStep(err) == IF err = NoErr THEN "select" ELSE "stopping"

\* executeStep that drops the resolved step
KeepCurrentStep(current, resolved) == current

\* executeStep: sm.currentStep takes the step getNextStep resolved (nil
\* when the lookup failed)
NextCurrentStep(current, resolved) == resolved

\* a loop that starts the step in a goroutine of its own and loops on
LoopDuringExecuteAsync == "select"

\* the loop goroutine calls executeStep itself: it is inside Execute
\* until Execute returns
LoopDuringExecute == "executing"

\* a cancel function that cancels nothing
CancelNothing(m) == {}

\* machines sharing one context
CancelAll(m) == Machines

\* the contexts a machine's cancel function cancels: its own, created
\* from context.Background() by its constructor
CancelTargets(m) == {m}

\* Close reporting an error when the machine was closed before
CloseResultOnce(m) == IF cancelled[m] THEN Err("ErrAlreadyClosed", "") ELSE NoErr

\* Close returns nil
CloseResult(m) == NoErr

\* ----------------------------------------------------------------- actions
\* NewStateMachine starting the loop before it tests the error of the
\* start identifier's lookup
NewStateMachineEager(m) ==
    /\ pc[m] = "new"
    /\ \E e \in checkArgs(args[m]) :
         LET r == getNextStep(args[m].Steps, args[m].StartStateIdentifier) IN
         IF e # NoErr
         THEN /\ newErr' = [newErr EXCEPT ![m] = e]
              /\ pc' = [pc EXCEPT ![m] = "failed"]
              /\ UNCHANGED <<handle, steps, currentStep>>
         ELSE /\ newErr' = [newErr EXCEPT ![m] = r.err]
              /\ steps' = [steps EXCEPT ![m] = args[m].Steps]
              /\ currentStep' = [currentStep EXCEPT ![m] = r.step]
              /\ handle' = [handle EXCEPT ![m] = (r.err = NoErr)]
              /\ pc' = [pc EXCEPT ![m] = "spawned"]
    /\ UNCHANGED <<args, cancelled, loopStatus, timerReady, stepErr, intervals,
                   started, inFlight, executedStep, lastReturned, closeCalls,
                   closeErr>>
    /\ UNCHANGED <<stepVars, relayerVars, clientVars>>

\* NewStateMachine(args)
NewStateMachine(m) ==
    /\ pc[m] = "new"
    /\ \E e \in checkArgs(args[m]) :
         LET r == getNextStep(args[m].Steps, args[m].StartStateIdentifier) IN
         IF e # NoErr
         THEN /\ newErr' = [newErr EXCEPT ![m] = e]
              /\ pc' = [pc EXCEPT ![m] = "failed"]
              /\ UNCHANGED <<handle, steps, currentStep>>
         ELSE IF r.err # NoErr
         THEN /\ newErr' = [newErr EXCEPT ![m] = r.err]
              /\ pc' = [pc EXCEPT ![m] = "failed"]
              /\ UNCHANGED <<handle, steps, currentStep>>
         ELSE /\ newErr' = [newErr EXCEPT ![m] = NoErr]
              /\ steps' = [steps EXCEPT ![m] = args[m].Steps]
              /\ currentStep' = [currentStep EXCEPT ![m] = r.step]
              /\ handle' = [handle EXCEPT ![m] = TRUE]
              /\ pc' = [pc EXCEPT ![m] = "spawned"]
    /\ UNCHANGED <<args, cancelled, loopStatus, timerReady, stepErr, intervals,
                   started, inFlight, executedStep, lastReturned, closeCalls,
                   closeErr>>
    /\ UNCHANGED <<stepVars, relayerVars, clientVars>>

\* executeLoop entry: sm.loopStatus.Set()
LoopStart(m) ==
    /\ pc[m] = "spawned"
    /\ loopStatus' = [loopStatus EXCEPT ![m] = TRUE]
    /\ pc' = [pc EXCEPT ![m] = "select"]
    /\ UNCHANGED <<args, newErr, handle, steps, currentStep, cancelled,
                   timerReady, stepErr, intervals, started, inFlight,
                   executedStep, lastReturned, closeCalls, closeErr>>
    /\ UNCHANGED <<stepVars, relayerVars, clientVars>>

\* the select statement evaluates time.After(sm.durationBetweenSteps)
SelectArm(m) ==
    /\ pc[m] = "select"
    /\ pc' = [pc EXCEPT ![m] = "armed"]
    /\ timerReady' = [timerReady EXCEPT ![m] = FALSE]
    /\ UNCHANGED <<args, newErr, handle, steps, currentStep, cancelled,
                   loopStatus, stepErr, intervals, started, inFlight,
                   executedStep, lastReturned, closeCalls, closeErr>>
    /\ UNCHANGED <<stepVars, relayerVars, clientVars>>

\* the poll interval elapses: the timer channel becomes ready, and a
\* goroutine parked in the select is woken with the timer case
TimerExpire(m) ==
    /\ pc[m] \in {"armed", "blocked"}
    /\ ~timerReady[m]
    /\ intervals[m] < MaxExec
    /\ intervals' = [intervals EXCEPT ![m] = @ + 1]
    /\ IF pc[m] = "blocked"
       THEN /\ pc' = [pc EXCEPT ![m] = "timer_chosen"]
            /\ UNCHANGED timerReady
       ELSE /\ timerReady' = [timerReady EXCEPT ![m] = TRUE]
            /\ UNCHANGED pc
    /\ UNCHANGED <<args, newErr, handle, steps, currentStep, cancelled,
                   loopStatus, stepErr, started, inFlight, executedStep,
                   lastReturned, closeCalls, closeErr>>
    /\ UNCHANGED <<stepVars, relayerVars, clientVars>>

\* select polls its cases and takes `case <-ctx.Done()`
SelectDone(m) ==
    /\ pc[m] = "armed"
    /\ cancelled[m]
    /\ pc' = [pc EXCEPT ![m] = "closing"]
    /\ timerReady' = [timerReady EXCEPT ![m] = FALSE]
    /\ UNCHANGED <<args, newErr, handle, steps, currentStep, cancelled,
                   loopStatus, stepErr, intervals, started, inFlight,
                   executedStep, lastReturned, closeCalls, closeErr>>
    /\ UNCHANGED <<stepVars, relayerVars, clientVars>>

\* select polls its cases and takes `case <-time.After(...)`
SelectTimer(m) ==
    /\ pc[m] = "armed"
    /\ timerReady[m]
    /\ pc' = [pc EXCEPT ![m] = "timer_chosen"]
    /\ timerReady' = [timerReady EXCEPT ![m] = FALSE]
    /\ UNCHANGED <<args, newErr, handle, steps, currentStep, cancelled,
                   loopStatus, stepErr, intervals, started, inFlight,
                   executedStep, lastReturned, closeCalls, closeErr>>
    /\ UNCHANGED <<stepVars, relayerVars, clientVars>>

\* select finds no case ready and parks the goroutine
SelectBlock(m) ==
    /\ pc[m] = "armed"
    /\ ~cancelled[m]
    /\ ~timerReady[m]
    /\ pc' = [pc EXCEPT ![m] = "blocked"]
    /\ UNCHANGED <<args, newErr, handle, steps, currentStep, cancelled,
                   loopStatus, timerReady, stepErr, intervals, started,
                   inFlight, executedStep, lastReturned, closeCalls, closeErr>>
    /\ UNCHANGED <<stepVars, relayerVars, clientVars>>

\* executeStep, first half: sm.currentStep.Execute(ctx) is called
ExecuteBegin(m) ==
    /\ pc[m] = "timer_chosen"
    /\ pc' = [pc EXCEPT ![m] = LoopDuringExecute]
    /\ started' = [started EXCEPT ![m] = @ + 1]
    /\ inFlight' = [inFlight EXCEPT ![m] = @ + 1]
    /\ executedStep' = [executedStep EXCEPT ![m] = currentStep[m]]
    /\ UNCHANGED <<args, newErr, handle, steps, currentStep, cancelled,
                   loopStatus, timerReady, stepErr, intervals, lastReturned,
                   closeCalls, closeErr>>
    /\ UNCHANGED <<stepVars, relayerVars, clientVars>>

\* executeStep, second half: Execute returns an identifier, which is
\* resolved against the graph; the loop continues or stops on the error
ExecuteReturn(m) ==
    /\ pc[m] = "executing"
    /\ \E id \in AnyIdentifiers :
         LET r == getNextStep(steps[m], id) IN
         /\ lastReturned' = [lastReturned EXCEPT ![m] = id]
         /\ currentStep' = [currentStep EXCEPT ![m] = NextCurrentStep(@, r.step)]
         /\ stepErr' = [stepErr EXCEPT ![m] = r.err]
         /\ pc' = [pc EXCEPT ![m] = LoopAfterExecuteStep(r.err)]
    /\ inFlight' = [inFlight EXCEPT ![m] = @ - 1]
    /\ UNCHANGED <<args, newErr, handle, steps, cancelled, loopStatus,
                   timerReady, intervals, started, executedStep, closeCalls,
                   closeErr>>
    /\ UNCHANGED <<stepVars, relayerVars, clientVars>>

\* executeLoop returning without the deferred Unset
LoopExitKeepsFlag(m) ==
    /\ pc[m] \in {"closing", "stopping"}
    /\ pc' = [pc EXCEPT ![m] = "terminated"]
    /\ UNCHANGED <<args, newErr, handle, steps, currentStep, cancelled, loopStatus,
                   timerReady, stepErr, intervals, started, inFlight,
                   executedStep, lastReturned, closeCalls, closeErr>>
    /\ UNCHANGED <<stepVars, relayerVars, clientVars>>

\* executeLoop returns: the deferred sm.loopStatus.Unset() runs
LoopExit(m) ==
    /\ pc[m] \in {"closing", "stopping"}
    /\ loopStatus' = [loopStatus EXCEPT ![m] = FALSE]
    /\ pc' = [pc EXCEPT ![m] = "terminated"]
    /\ UNCHANGED <<args, newErr, handle, steps, currentStep, cancelled,
                   timerReady, stepErr, intervals, started, inFlight,
                   executedStep, lastReturned, closeCalls, closeErr>>
    /\ UNCHANGED <<stepVars, relayerVars, clientVars>>

\* Close(): sm.cancel(); a goroutine parked in the select is woken with
\* the ctx.Done() case
Close(m) ==
    /\ handle[m]
    /\ closeCalls[m] < MaxClose
    /\ closeCalls' = [closeCalls EXCEPT ![m] = @ + 1]
    /\ closeErr' = [closeErr EXCEPT ![m] = CloseResult(m)]
    /\ cancelled' = [o \in Machines |->
                        IF o \in CancelTargets(m) THEN TRUE ELSE cancelled[o]]
    /\ pc' = [o \in Machines |->
                 IF o \in CancelTargets(m) /\ pc[o] = "blocked"
                 THEN "closing" ELSE pc[o]]
    /\ UNCHANGED <<args, newErr, handle, steps, currentStep, loopStatus,
                   timerReady, stepErr, intervals, started, inFlight,
                   executedStep, lastReturned>>
    /\ UNCHANGED <<stepVars, relayerVars, clientVars>>

\* ------------------------------------------- steps of the Elrond->Eth graph
\* step identifiers
GettingPendingBatchFromElrond == "GettingPendingBatchFromElrond"
SigningProposedTransferOnEthereum == "SigningProposedTransferOnEthereum"
WaitingForQuorumOnTransfer == "WaitingForQuorumOnTransfer"
WaitingTransferConfirmation == "WaitingTransferConfirmation"
PerformingTransfer == "PerformingTransfer"
SigningProposedSetStatusOnElrond == "SigningProposedSetStatusOnElrond"
WaitingForQuorumOnSetStatus == "WaitingForQuorumOnSetStatus"
PerformingSetStatus == "PerformingSetStatus"

\* the identifier every operational error routes to
initialStep == GettingPendingBatchFromElrond

\* the reserved action id and a usable one
InvalidActionID == 0
actionID == 662528
ActionIDs == {InvalidActionID, actionID}

\* what a stubbed Executor answers: GetStoredBatch non-nil; the action id
\* lookup; WasActionSignedOnElrond; the sign call; QuorumReached;
\* WasActionPerformedOnElrond; MyTurnAsLeader; PerformActionOnElrond; how
\* WaitForTransferConfirmation ended
ExecutorStub ==
    [batch : BOOLEAN, actionID : ActionIDs, actionIDErr : BOOLEAN,
     wasSigned : BOOLEAN, wasSignedErr : BOOLEAN, signErr : BOOLEAN,
     quorumReached : BOOLEAN, quorumErr : BOOLEAN,
     wasPerformed : BOOLEAN, wasPerformedErr : BOOLEAN, leader : BOOLEAN,
     performErr : BOOLEAN, waitCancelled : BOOLEAN]

\* an Executor on which every call succeeds
HealthyStub ==
    [batch |-> TRUE, actionID |-> actionID, actionIDErr |-> FALSE,
     wasSigned |-> FALSE, wasSignedErr |-> FALSE, signErr |-> FALSE,
     quorumReached |-> FALSE, quorumErr |-> FALSE,
     wasPerformed |-> FALSE, wasPerformedErr |-> FALSE, leader |-> FALSE,
     performErr |-> FALSE, waitCancelled |-> FALSE]

\* the outcome of one Execute: the identifier returned, the error returned
\* next to it, and the Executor calls made, in order
Outcome(next, calls) == [next |-> next, err |-> NoErr, calls |-> calls]
NoOutcome == Outcome(NoIdentifier, <<>>)

\* the number of times a call occurs in a sequence of calls
Count(calls, c) == Cardinality({i \in DOMAIN calls : calls[i] = c})

\* performSetStatusStep staying at its own identifier when the perform
\* call fails
performSetStatusStepStaysOnError(s) ==
    IF s.wasPerformedErr \/ s.wasPerformed
    THEN Outcome(GettingPendingBatchFromElrond,
                 <<"WasActionPerformedOnElrond", "GetLogger", "GetStoredActionID">>)
    ELSE IF ~s.leader
    THEN Outcome(PerformingSetStatus,
                 <<"WasActionPerformedOnElrond", "MyTurnAsLeader", "GetLogger">>)
    ELSE Outcome(PerformingSetStatus,
                 <<"WasActionPerformedOnElrond", "MyTurnAsLeader",
                   "PerformActionOnElrond">>)

\* performSetStatusStep without the leader test
performSetStatusStepUngated(s) ==
    IF s.wasPerformedErr \/ s.wasPerformed
    THEN Outcome(GettingPendingBatchFromElrond,
                 <<"WasActionPerformedOnElrond", "GetLogger", "GetStoredActionID">>)
    ELSE IF s.performErr
    THEN Outcome(GettingPendingBatchFromElrond,
                 <<"WasActionPerformedOnElrond", "PerformActionOnElrond",
                   "GetLogger", "GetStoredActionID">>)
    ELSE Outcome(PerformingSetStatus,
                 <<"WasActionPerformedOnElrond", "PerformActionOnElrond">>)

\* performSetStatusStep asking whether the action was performed only
\* after it has acted
performSetStatusStepActsFirst(s) ==
    IF s.leader
    THEN IF s.performErr
         THEN Outcome(GettingPendingBatchFromElrond,
                      <<"MyTurnAsLeader", "PerformActionOnElrond", "GetLogger",
                        "GetStoredActionID">>)
         ELSE Outcome(PerformingSetStatus, <<"MyTurnAsLeader", "PerformActionOnElrond">>)
    ELSE IF s.wasPerformedErr \/ s.wasPerformed
    THEN Outcome(GettingPendingBatchFromElrond,
                 <<"MyTurnAsLeader", "WasActionPerformedOnElrond", "GetLogger",
                   "GetStoredActionID">>)
    ELSE Outcome(PerformingSetStatus,
                 <<"MyTurnAsLeader", "WasActionPerformedOnElrond", "GetLogger">>)

\* performSetStatusStep in which the leader waits like everybody else
performSetStatusStepNeverPerforms(s) ==
    IF s.wasPerformedErr \/ s.wasPerformed
    THEN Outcome(GettingPendingBatchFromElrond,
                 <<"WasActionPerformedOnElrond", "GetLogger", "GetStoredActionID">>)
    ELSE Outcome(PerformingSetStatus,
                 <<"WasActionPerformedOnElrond", "MyTurnAsLeader", "GetLogger">>)

\* performSetStatusStep.Execute
performSetStatusStepExecute(s) ==
    IF s.wasPerformedErr
    THEN Outcome(GettingPendingBatchFromElrond,
                 <<"WasActionPerformedOnElrond", "GetLogger", "GetStoredActionID">>)
    ELSE IF s.wasPerformed
    THEN Outcome(GettingPendingBatchFromElrond,
                 <<"WasActionPerformedOnElrond", "GetLogger", "GetStoredActionID">>)
    ELSE IF ~s.leader
    THEN Outcome(PerformingSetStatus,
                 <<"WasActionPerformedOnElrond", "MyTurnAsLeader", "GetLogger">>)
    ELSE IF s.performErr
    THEN Outcome(GettingPendingBatchFromElrond,
                 <<"WasActionPerformedOnElrond", "MyTurnAsLeader",
                   "PerformActionOnElrond", "GetLogger", "GetStoredActionID">>)
    ELSE Outcome(PerformingSetStatus,
                 <<"WasActionPerformedOnElrond", "MyTurnAsLeader",
                   "PerformActionOnElrond">>)

\* signProposedTransferStep in which only the leader signs
signProposedTransferStepLeaderOnly(s) ==
    IF ~s.batch
    THEN Outcome(GettingPendingBatchFromElrond, <<"GetStoredBatch", "GetLogger">>)
    ELSE IF ~s.leader
    THEN Outcome(SigningProposedTransferOnEthereum,
                 <<"GetStoredBatch", "MyTurnAsLeader", "GetLogger">>)
    ELSE IF s.signErr
    THEN Outcome(GettingPendingBatchFromElrond,
                 <<"GetStoredBatch", "MyTurnAsLeader", "SignTransferOnEthereum",
                   "GetLogger">>)
    ELSE Outcome(WaitingForQuorumOnTransfer,
                 <<"GetStoredBatch", "MyTurnAsLeader", "SignTransferOnEthereum">>)

\* signProposedTransferStep staying at its own identifier until a batch
\* is stored
signProposedTransferStepWaitsForBatch(s) ==
    IF ~s.batch
    THEN Outcome(SigningProposedTransferOnEthereum, <<"GetStoredBatch", "GetLogger">>)
    ELSE IF s.signErr
    THEN Outcome(GettingPendingBatchFromElrond,
                 <<"GetStoredBatch", "SignTransferOnEthereum", "GetLogger">>)
    ELSE Outcome(WaitingForQuorumOnTransfer, <<"GetStoredBatch", "SignTransferOnEthereum">>)

\* signProposedTransferStep signing before it looks for the stored batch
\* and staying at its own identifier when the sign call fails
signProposedTransferStepRetriesSign(s) ==
    IF s.signErr
    THEN Outcome(SigningProposedTransferOnEthereum,
                 <<"SignTransferOnEthereum", "GetLogger">>)
    ELSE IF ~s.batch
    THEN Outcome(GettingPendingBatchFromElrond,
                 <<"SignTransferOnEthereum", "GetStoredBatch", "GetLogger">>)
    ELSE Outcome(WaitingForQuorumOnTransfer, <<"SignTransferOnEthereum", "GetStoredBatch">>)

\* signProposedTransferStep.Execute
signProposedTransferStepExecute(s) ==
    IF ~s.batch
    THEN Outcome(GettingPendingBatchFromElrond, <<"GetStoredBatch", "GetLogger">>)
    ELSE IF s.signErr
    THEN Outcome(GettingPendingBatchFromElrond,
                 <<"GetStoredBatch", "SignTransferOnEthereum", "GetLogger">>)
    ELSE Outcome(WaitingForQuorumOnTransfer,
                 <<"GetStoredBatch", "SignTransferOnEthereum">>)

\* waitTransferConfirmationStep staying at its own identifier when the
\* wait was cut short by the context
waitTransferConfirmationStepRetries(s) ==
    Outcome(IF s.waitCancelled THEN WaitingTransferConfirmation ELSE PerformingTransfer,
            <<"WaitForTransferConfirmation">>)

\* waitTransferConfirmationStep.Execute
waitTransferConfirmationStepExecute(s) ==
    Outcome(PerformingTransfer, <<"WaitForTransferConfirmation">>)

\* signProposedSetStatusStep taking the reserved action id for a usable one
signProposedSetStatusStepAnyID(s) ==
    IF ~s.batch
    THEN Outcome(initialStep, <<"GetStoredBatch">>)
    ELSE IF s.actionIDErr
    THEN Outcome(initialStep,
                 <<"GetStoredBatch", "GetAndStoreActionIDForProposeSetStatusFromElrond">>)
    ELSE IF s.wasSignedErr
    THEN Outcome(initialStep,
                 <<"GetStoredBatch", "GetAndStoreActionIDForProposeSetStatusFromElrond",
                   "WasActionSignedOnElrond">>)
    ELSE IF s.wasSigned
    THEN Outcome(WaitingForQuorumOnSetStatus,
                 <<"GetStoredBatch", "GetAndStoreActionIDForProposeSetStatusFromElrond",
                   "WasActionSignedOnElrond">>)
    ELSE IF s.signErr
    THEN Outcome(initialStep,
                 <<"GetStoredBatch", "GetAndStoreActionIDForProposeSetStatusFromElrond",
                   "WasActionSignedOnElrond", "SignActionOnElrond">>)
    ELSE Outcome(WaitingForQuorumOnSetStatus,
                 <<"GetStoredBatch", "GetAndStoreActionIDForProposeSetStatusFromElrond",
                   "WasActionSignedOnElrond", "SignActionOnElrond">>)

\* signProposedSetStatusStep signing whether or not it signed before
signProposedSetStatusStepSignsAgain(s) ==
    IF ~s.batch
    THEN Outcome(initialStep, <<"GetStoredBatch">>)
    ELSE IF s.actionIDErr \/ s.actionID = InvalidActionID
    THEN Outcome(initialStep,
                 <<"GetStoredBatch", "GetAndStoreActionIDForProposeSetStatusFromElrond">>)
    ELSE IF s.wasSignedErr
    THEN Outcome(initialStep,
                 <<"GetStoredBatch", "GetAndStoreActionIDForProposeSetStatusFromElrond",
                   "WasActionSignedOnElrond">>)
    ELSE IF s.signErr
    THEN Outcome(initialStep,
                 <<"GetStoredBatch", "GetAndStoreActionIDForProposeSetStatusFromElrond",
                   "WasActionSignedOnElrond", "SignActionOnElrond">>)
    ELSE Outcome(WaitingForQuorumOnSetStatus,
                 <<"GetStoredBatch", "GetAndStoreActionIDForProposeSetStatusFromElrond",
                   "WasActionSignedOnElrond", "SignActionOnElrond">>)

\* signProposedSetStatusStep.Execute
signProposedSetStatusStepExecute(s) ==
    IF ~s.batch
    THEN Outcome(initialStep, <<"GetStoredBatch">>)
    ELSE IF s.actionIDErr \/ s.actionID = InvalidActionID
    THEN Outcome(initialStep,
                 <<"GetStoredBatch", "GetAndStoreActionIDForProposeSetStatusFromElrond">>)
    ELSE IF s.wasSignedErr
    THEN Outcome(initialStep,
                 <<"GetStoredBatch", "GetAndStoreActionIDForProposeSetStatusFromElrond",
                   "WasActionSignedOnElrond">>)
    ELSE IF s.wasSigned
    THEN Outcome(WaitingForQuorumOnSetStatus,
                 <<"GetStoredBatch", "GetAndStoreActionIDForProposeSetStatusFromElrond",
                   "WasActionSignedOnElrond">>)
    ELSE IF s.signErr
    THEN Outcome(initialStep,
                 <<"GetStoredBatch", "GetAndStoreActionIDForProposeSetStatusFromElrond",
                   "WasActionSignedOnElrond", "SignActionOnElrond">>)
    ELSE Outcome(WaitingForQuorumOnSetStatus,
                 <<"GetStoredBatch", "GetAndStoreActionIDForProposeSetStatusFromElrond",
                   "WasActionSignedOnElrond", "SignActionOnElrond">>)

\* the wait-for-quorum step of the set-status phase
waitForQuorumOnSetStatusStepExecute(s) ==
    IF s.quorumErr
    THEN Outcome(initialStep, <<"QuorumReached">>)
    ELSE IF s.quorumReached
    THEN Outcome(PerformingSetStatus, <<"QuorumReached">>)
    ELSE Outcome(WaitingForQuorumOnSetStatus, <<"QuorumReached">>)

\* the Executor that differs in the answer of MyTurnAsLeader only
OtherLeader(s) == [s EXCEPT !.leader = ~@]

\* one Execute of a step against the stub, and against its twin
RunStep(name, outcome, twin) ==
    /\ ran = "none"
    /\ ran' = name
    /\ result' = outcome
    /\ twinResult' = twin
    /\ UNCHANGED <<stub, engineVars, relayerVars, clientVars>>

RunSignProposedSetStatus ==
    RunStep(SigningProposedSetStatusOnElrond,
            signProposedSetStatusStepExecute(stub),
            signProposedSetStatusStepExecute(OtherLeader(stub)))

RunPerformSetStatus ==
    RunStep(PerformingSetStatus,
            performSetStatusStepExecute(stub),
            performSetStatusStepExecute(OtherLeader(stub)))

RunSignProposedTransfer ==
    RunStep(SigningProposedTransferOnEthereum,
            signProposedTransferStepExecute(stub),
            signProposedTransferStepExecute(OtherLeader(stub)))

RunWaitTransferConfirmation ==
    RunStep(WaitingTransferConfirmation,
            waitTransferConfirmationStepExecute(stub),
            waitTransferConfirmationStepExecute(OtherLeader(stub)))

\* no step has been executed against a stub
IdleSteps ==
    /\ stub = HealthyStub
    /\ ran = "none"
    /\ result = NoOutcome
    /\ twinResult = NoOutcome

\* --------------------------------- relayers in the set-status phase
Relayers == {"r1", "r2", "r3"}

SetStatusPhase ==
    {SigningProposedSetStatusOnElrond, WaitingForQuorumOnSetStatus, PerformingSetStatus}

\* what the Executor of relayer r answers in the present chain state; no
\* call fails
ChainStub(r) ==
    [HealthyStub EXCEPT !.wasSigned = (r \in signed),
                        !.quorumReached = (Cardinality(signed) >= Quorum),
                        !.wasPerformed = performed,
                        !.leader = (leader = r)]

\* the engine of relayer r executes its current step once: executeStep
\* calls Execute and makes the step of the returned identifier current;
\* a sign call leaves r's signature on the chain, a perform call sends
\* the transaction that executes the action
Poll(r, step, outcome) ==
    /\ relayerStep[r] = step
    /\ relayerStep' = [relayerStep EXCEPT ![r] = outcome.next]
    /\ signed' = IF Count(outcome.calls, "SignActionOnElrond") > 0
                 THEN signed \cup {r} ELSE signed
    /\ txPending' = (txPending \/ Count(outcome.calls, "PerformActionOnElrond") > 0)
    /\ performCalls' =
         [performCalls EXCEPT ![r] =
            IF @ + Count(outcome.calls, "PerformActionOnElrond") > MaxPerform
            THEN MaxPerform
            ELSE @ + Count(outcome.calls, "PerformActionOnElrond")]
    /\ UNCHANGED <<performed, leader, engineVars, stepVars, clientVars>>

PollSign(r) ==
    Poll(r, SigningProposedSetStatusOnElrond,
         signProposedSetStatusStepExecute(ChainStub(r)))

PollWaitQuorum(r) ==
    Poll(r, WaitingForQuorumOnSetStatus,
         waitForQuorumOnSetStatusStepExecute(ChainStub(r)))

PollPerform(r) ==
    Poll(r, PerformingSetStatus, performSetStatusStepExecute(ChainStub(r)))

\* the chain executes the perform transaction it was sent
ChainExecute ==
    /\ txPending
    /\ performed' = TRUE
    /\ txPending' = FALSE
    /\ UNCHANGED <<relayerStep, signed, leader, performCalls, engineVars, stepVars,
                   clientVars>>

\* no relayer is in the set-status phase
IdleRelayers ==
    /\ relayerStep = [r \in Relayers |-> GettingPendingBatchFromElrond]
    /\ signed = {}
    /\ txPending = FALSE
    /\ performed = FALSE
    /\ leader = "r1"
    /\ performCalls = [r \in Relayers |-> 0]

\* ------------------------------------------- TransferBatch.Clone
\* the nil pointer and the nil slice
Nil == 0

\* a new object on the heap: the heap with it and its address
Alloc(h, obj) == [heap |-> Append(h, obj), ref |-> Len(h) + 1]

\* the bytes a slice holds; a nil slice holds none
BytesOf(h, ref) == IF ref = Nil THEN <<>> ELSE h[ref].val

\* make([]byte, len(src)) followed by copy(dst, src)
CloneBytes(h, ref) == Alloc(h, [kind |-> "bytes", val |-> BytesOf(h, ref)])

\* DepositTransfer.Clone handing out the amount of the original
DepositTransferCloneSharesAmount(h, d) ==
    LET src == h[d]
        to == CloneBytes(h, src.ToBytes)
        from == CloneBytes(to.heap, src.FromBytes)
        token == CloneBytes(from.heap, src.TokenBytes)
    IN  Alloc(token.heap,
              [kind |-> "deposit", Nonce |-> src.Nonce,
               ToBytes |-> to.ref, DisplayableTo |-> src.DisplayableTo,
               FromBytes |-> from.ref, DisplayableFrom |-> src.DisplayableFrom,
               TokenBytes |-> token.ref, DisplayableToken |-> src.DisplayableToken,
               Amount |-> src.Amount])

\* DepositTransfer.Clone: new byte slices of the same length holding the
\* same bytes, a new big.Int that is big.NewInt(0) and takes the value of
\* the original's amount when that is not nil
DepositTransferClone(h, d) ==
    LET src == h[d]
        to == CloneBytes(h, src.ToBytes)
        from == CloneBytes(to.heap, src.FromBytes)
        token == CloneBytes(from.heap, src.TokenBytes)
        amount == Alloc(token.heap,
                        [kind |-> "int",
                         val |-> IF src.Amount # Nil
                                 THEN token.heap[src.Amount].val ELSE 0])
    IN  Alloc(amount.heap,
              [kind |-> "deposit", Nonce |-> src.Nonce,
               ToBytes |-> to.ref, DisplayableTo |-> src.DisplayableTo,
               FromBytes |-> from.ref, DisplayableFrom |-> src.DisplayableFrom,
               TokenBytes |-> token.ref, DisplayableToken |-> src.DisplayableToken,
               Amount |-> amount.ref])

\* the deposits a batch holds, in order
DepositsOf(h, b) == IF h[b].Deposits = Nil THEN <<>> ELSE h[h[b].Deposits].val

\* the loop of TransferBatch.Clone: append(cloned.Deposits, dt.Clone())
RECURSIVE CloneDeposits(_, _, _)
CloneDeposits(h, refs, acc) ==
    IF refs = <<>> THEN [heap |-> h, refs |-> acc]
    ELSE LET c == DepositTransferClone(h, Head(refs))
         IN  CloneDeposits(c.heap, Tail(refs), Append(acc, c.ref))

\* TransferBatch.Clone
TransferBatchClone(h, b) ==
    LET deposits == CloneDeposits(h, DepositsOf(h, b), <<>>)
        list == Alloc(deposits.heap, [kind |-> "list", val |-> deposits.refs])
    IN  Alloc(list.heap, [kind |-> "batch", ID |-> h[b].ID, Deposits |-> list.ref])

\* the field values of a deposit as a reader sees them: byte slices by
\* their bytes (a nil slice and an empty one read alike), the amount by
\* its value, <<>> for a nil amount
DepositView(h, d) ==
    IF d = Nil THEN <<>>
    ELSE <<[Nonce |-> h[d].Nonce,
            ToBytes |-> BytesOf(h, h[d].ToBytes),
            DisplayableTo |-> h[d].DisplayableTo,
            FromBytes |-> BytesOf(h, h[d].FromBytes),
            DisplayableFrom |-> h[d].DisplayableFrom,
            TokenBytes |-> BytesOf(h, h[d].TokenBytes),
            DisplayableToken |-> h[d].DisplayableToken,
            Amount |-> IF h[d].Amount = Nil THEN <<>> ELSE <<h[h[d].Amount].val>>]>>

\* the field values of a batch: its ID and its deposits in order
BatchView(h, b) ==
    [ID |-> h[b].ID,
     Deposits |-> [i \in 1..Len(DepositsOf(h, b)) |->
                      DepositView(h, DepositsOf(h, b)[i])]]

\* the byte slices and amounts the cloned batches are made of: a slice
\* is nil, empty or holds a byte (the three slices of a deposit are
\* cloned by the same statements; the empty one is explored on ToBytes),
\* an amount is nil or a number
SliceInputs == {[nil |-> TRUE, val |-> <<>>], [nil |-> FALSE, val |-> <<>>],
                [nil |-> FALSE, val |-> <<1>>]}
AmountInputs == {[nil |-> TRUE, val |-> 0], [nil |-> FALSE, val |-> 5]}
DepositInputs ==
    {in \in [ToBytes : SliceInputs, FromBytes : SliceInputs,
              TokenBytes : SliceInputs, Amount : AmountInputs] :
        /\ in.FromBytes.nil \/ in.FromBytes.val # <<>>
        /\ in.TokenBytes.nil \/ in.TokenBytes.val # <<>>}

NewBytes(h, in) ==
    IF in.nil THEN [heap |-> h, ref |-> Nil]
    ELSE Alloc(h, [kind |-> "bytes", val |-> in.val])

\* a deposit in memory; its nonce tells its place in the batch
NewDeposit(h, in, nonce) ==
    LET to == NewBytes(h, in.ToBytes)
        from == NewBytes(to.heap, in.FromBytes)
        token == NewBytes(from.heap, in.TokenBytes)
        amount == IF in.Amount.nil THEN [heap |-> token.heap, ref |-> Nil]
                  ELSE Alloc(token.heap, [kind |-> "int", val |-> in.Amount.val])
    IN  Alloc(amount.heap,
              [kind |-> "deposit", Nonce |-> nonce,
               ToBytes |-> to.ref, DisplayableTo |-> "to",
               FromBytes |-> from.ref, DisplayableFrom |-> "from",
               TokenBytes |-> token.ref, DisplayableToken |-> "token",
               Amount |-> amount.ref])

RECURSIVE NewDeposits(_, _, _)
NewDeposits(h, ins, acc) ==
    IF Len(acc) = Len(ins) THEN [heap |-> h, refs |-> acc]
    ELSE LET d == NewDeposit(h, ins[Len(acc) + 1], Len(acc) + 1)
         IN  NewDeposits(d.heap, ins, Append(acc, d.ref))

\* a batch in memory; a batch without deposits has a nil Deposits slice
NewBatch(ins) ==
    LET deposits == NewDeposits(<<>>, ins, <<>>)
        list == IF ins = <<>> THEN [heap |-> deposits.heap, ref |-> Nil]
                ELSE Alloc(deposits.heap, [kind |-> "list", val |-> deposits.refs])
    IN  Alloc(list.heap, [kind |-> "batch", ID |-> 7, Deposits |-> list.ref])

\* C = B.Clone()
Clone ==
    /\ cloned = Nil
    /\ LET c == TransferBatchClone(heap, original) IN
         /\ heap' = c.heap
         /\ cloned' = c.ref
         /\ viewB' = BatchView(c.heap, original)
         /\ viewC' = BatchView(c.heap, c.ref)
    /\ UNCHANGED <<original, touched, validatorVars, transferVars, engineVars, stepVars,
                   relayerVars>>

\* the batch a mutation goes through
Root(side) == IF side = "B" THEN original ELSE cloned

\* one of the two batches is mutated through its own pointers
Mutate(side, h) ==
    /\ heap' = h
    /\ touched' = side
    /\ UNCHANGED <<original, cloned, viewB, viewC, validatorVars, transferVars, engineVars,
                   stepVars, relayerVars>>

\* batch.Deposits[i].XBytes[j] = 255
MutateByte ==
    /\ cloned # Nil
    /\ touched = "none"
    /\ \E side \in {"B", "C"} :
         \E i \in DOMAIN DepositsOf(heap, Root(side)) :
           \E f \in {"ToBytes", "FromBytes", "TokenBytes"} :
             LET slice == heap[DepositsOf(heap, Root(side))[i]][f] IN
             /\ slice # Nil
             /\ \E j \in DOMAIN heap[slice].val :
                  Mutate(side, [heap EXCEPT ![slice].val[j] = 255])

\* batch.Deposits[i].Amount.Add(amount, 1)
MutateAmount ==
    /\ cloned # Nil
    /\ touched = "none"
    /\ \E side \in {"B", "C"} :
         \E i \in DOMAIN DepositsOf(heap, Root(side)) :
           LET amount == heap[DepositsOf(heap, Root(side))[i]].Amount IN
           /\ amount # Nil
           /\ Mutate(side, [heap EXCEPT ![amount].val = @ + 1])

\* batch.Deposits[i].Nonce += 100
MutateNonce ==
    /\ cloned # Nil
    /\ touched = "none"
    /\ \E side \in {"B", "C"} :
         \E i \in DOMAIN DepositsOf(heap, Root(side)) :
           Mutate(side, [heap EXCEPT ![DepositsOf(heap, Root(side))[i]].Nonce = @ + 100])

\* batch.Deposits[i] = nil
MutateList ==
    /\ cloned # Nil
    /\ touched = "none"
    /\ \E side \in {"B", "C"} :
         \E i \in DOMAIN DepositsOf(heap, Root(side)) :
           Mutate(side, [heap EXCEPT ![heap[Root(side)].Deposits].val[i] = Nil])

\* no batch is in memory
IdleClones ==
    /\ heap = <<>>
    /\ original = Nil
    /\ cloned = Nil
    /\ viewB = <<>>
    /\ viewC = <<>>
    /\ touched = "none"

\* ------------------------------------------------ the batch validator
\* clients.Chain: the two known chains and two other values
Ethereum == "Ethereum"
Elrond == "Elrond"
Chains == {Ethereum, Elrond, "Polygon", ""}

\* time.Millisecond, in nanoseconds as time.Duration counts
minRequestTime == 1000000
RequestTimes == {0 - 1, 0, minRequestTime - 1, minRequestTime, 2 * minRequestTime}

ArgsBatchValidator ==
    [SourceChain : Chains, DestinationChain : Chains, RequestTime : RequestTimes]

\* an error wrapping clients.ErrInvalidValue, naming the value
ErrInvalidValue(what) == Err("ErrInvalidValue", what)

\* checkArgs of the validator rejecting a request time of zero or less
batchValidatorCheckArgsPositiveTime(a) ==
    IF a.SourceChain \notin {Ethereum, Elrond} THEN ErrInvalidValue(a.SourceChain)
    ELSE IF a.DestinationChain \notin {Ethereum, Elrond}
    THEN ErrInvalidValue(a.DestinationChain)
    ELSE IF a.RequestTime <= 0 THEN ErrInvalidValue("RequestTime")
    ELSE NoErr

\* checkArgs of the batch validator
batchValidatorCheckArgs(a) ==
    IF a.SourceChain \notin {Ethereum, Elrond} THEN ErrInvalidValue(a.SourceChain)
    ELSE IF a.DestinationChain \notin {Ethereum, Elrond}
    THEN ErrInvalidValue(a.DestinationChain)
    ELSE IF a.RequestTime < minRequestTime THEN ErrInvalidValue("RequestTime")
    ELSE NoErr

\* NewBatchValidator(args)
NewBatchValidator ==
    /\ bvState = "new"
    /\ LET err == batchValidatorCheckArgs(bvArgs) IN
         IF err # NoErr
         THEN /\ bvErr' = err
              /\ bvState' = "rejected"
              /\ UNCHANGED requestTime
         ELSE /\ bvErr' = NoErr
              /\ bvState' = "built"
              /\ requestTime' = bvArgs.RequestTime
    /\ UNCHANGED <<bvArgs, reply, validation, cloneVars, transferVars, engineVars, stepVars,
                   relayerVars>>

\* response bodies: nothing, bytes that are no JSON, the JSON null, or a
\* JSON object in which "valid" is absent, a boolean or a string
Bodies ==
    {[syntax |-> "empty", valid |-> "absent"],
     [syntax |-> "garbage", valid |-> "absent"],
     [syntax |-> "null", valid |-> "absent"],
     [syntax |-> "object", valid |-> "absent"],
     [syntax |-> "object", valid |-> "true"],
     [syntax |-> "object", valid |-> "false"],
     [syntax |-> "object", valid |-> "string"]}

StatusCodes == {200, 204, 404, 500}

\* how one request goes: json.Marshal may fail; the request may not be
\* built, httpClient.Do may fail or run into the timeout of the request
\* context, reading the body may fail, or a response arrives
Replies ==
    [marshalErr : BOOLEAN,
     kind : {"request", "transport", "timeout", "read", "response"},
     status : StatusCodes, body : Bodies]

\* json.Unmarshal(body, &microserviceResponse{}): null leaves the zero
\* value, an absent field too, a field of another type is an error
Unmarshal(body) ==
    IF body.syntax \in {"empty", "garbage"} THEN [err |-> TRUE, Valid |-> FALSE]
    ELSE IF body.syntax = "null" THEN [err |-> FALSE, Valid |-> FALSE]
    ELSE IF body.valid = "string" THEN [err |-> TRUE, Valid |-> FALSE]
    ELSE [err |-> FALSE, Valid |-> (body.valid = "true")]

\* doRequestReturningBytes: the bytes ioutil.ReadAll read from the
\* response, whatever its status code, or the error of the request
doRequestReturningBytes(r) ==
    IF r.kind # "response" THEN [nil |-> TRUE, body |-> <<>>, err |-> Err(r.kind, "")]
    ELSE [nil |-> FALSE, body |-> <<r.body>>, err |-> NoErr]

\* doRequest: the same under the timeout of the validator
doRequest(r) ==
    LET res == doRequestReturningBytes(r) IN
    IF res.err # NoErr THEN [nil |-> TRUE, body |-> <<>>, err |-> res.err] ELSE res

\* ValidateBatch taking a body it cannot decode for the answer "invalid"
ValidateBatchSilentFalse(r) ==
    IF r.marshalErr THEN [valid |-> FALSE, err |-> Err("during marshal", "")]
    ELSE LET res == doRequest(r) IN
         IF res.err # NoErr
         THEN [valid |-> FALSE, err |-> Err("executing request", res.err.base)]
         ELSE IF res.nil THEN [valid |-> FALSE, err |-> Err("empty response", "")]
         ELSE [valid |-> Unmarshal(res.body[1]).Valid, err |-> NoErr]

\* ValidateBatch: what it returns when the request goes as r says
ValidateBatchResult(r) ==
    IF r.marshalErr THEN [valid |-> FALSE, err |-> Err("during marshal", "")]
    ELSE LET res == doRequest(r) IN
         IF res.err # NoErr
         THEN [valid |-> FALSE, err |-> Err("executing request", res.err.base)]
         ELSE IF res.nil THEN [valid |-> FALSE, err |-> Err("empty response", "")]
         ELSE IF Unmarshal(res.body[1]).err
         THEN [valid |-> FALSE, err |-> Err("during unmarshal", "")]
         ELSE [valid |-> Unmarshal(res.body[1]).Valid, err |-> NoErr]

\* bv.ValidateBatch(ctx, batch)
ValidateBatch ==
    /\ bvState = "built"
    /\ validation = <<>>
    /\ \E r \in Replies :
         /\ reply' = <<r>>
         /\ validation' = <<ValidateBatchResult(r)>>
    /\ UNCHANGED <<bvArgs, bvState, bvErr, requestTime, cloneVars, transferVars, engineVars,
                   stepVars, relayerVars>>

\* no validator has been asked for
IdleValidator ==
    /\ bvArgs = <<>>
    /\ bvState = "new"
    /\ bvErr = NoErr
    /\ requestTime = 0
    /\ reply = <<>>
    /\ validation = <<>>

\* ------------------------------------- the Ethereum client's ExecuteTransfer
\* tokens as the deposits of a batch name them
TokenBytes == {"tokenA", "tokenB"}

\* tokensMapper.ConvertToken followed by common.BytesToAddress: the ERC20
\* contract of a token
ConvertToken(tokenBytes) == IF tokenBytes = "tokenA" THEN "erc20A" ELSE "erc20B"

ERC20Tokens == {ConvertToken(t) : t \in TokenBytes}

\* amounts of the deposits and balances of the safe contract
Amounts == {1, 2}

Balances == {1, 3}

\* the calls made before the signatures are asked for
EarlyCalls == {"BlockNumber", "NonceAt", "ChainID", "NewKeyedTransactorWithChainID",
               "GetCurrentGasPrice"}

\* what the signature holder has for the message hash: n signatures in the
\* order it returns them
Signatures(n) == [i \in 1..n |-> i]

\* the batch pointer handed to ExecuteTransfer: nil, or a batch of up to
\* MaxTransfers deposits
TransferBatches ==
    {<<>>} \cup
    {<<[Deposits |-> d]>> :
       d \in UNION {[1..n -> [TokenBytes : TokenBytes, Amount : Amounts]] :
                      n \in 0..MaxTransfers}}

\* one call of ExecuteTransfer and the answers of what it calls
TransferArgs ==
    [batch : TransferBatches,
     quorum : 0..MaxSignatures,
     signatures : {Signatures(n) : n \in 0..MaxSignatures},
     failing : EarlyCalls \cup {"none"},
     convertFails : BOOLEAN,
     balances : [ERC20Tokens -> Balances],
     unreadable : SUBSET ERC20Tokens,
     submitFails : BOOLEAN]

\* extractList: the tokens and amounts of the deposits, or the error of the
\* first conversion
extractList(a, batch) ==
    IF batch.Deposits # <<>> /\ a.convertFails
    THEN [tokens |-> <<>>, amounts |-> <<>>,
          err |-> Err("ConvertToken", batch.Deposits[1].TokenBytes)]
    ELSE [tokens |-> [i \in DOMAIN batch.Deposits |->
                        ConvertToken(batch.Deposits[i].TokenBytes)],
          amounts |-> [i \in DOMAIN batch.Deposits |-> batch.Deposits[i].Amount],
          err |-> NoErr]

\* the loop of getCumulatedTransfers from index i on
RECURSIVE Cumulate(_, _, _, _)
Cumulate(tokens, amounts, i, transfers) ==
    IF i > Len(tokens) THEN transfers
    ELSE LET token == tokens[i]
             existing == IF token \in DOMAIN transfers THEN transfers[token] ELSE 0
         IN Cumulate(tokens, amounts, i + 1,
                     [t \in DOMAIN transfers \cup {token} |->
                        IF t = token THEN existing + amounts[i] ELSE transfers[t]])

\* getCumulatedTransfers keeping, for each token, its last amount only
getCumulatedTransfersLastOnly(tokens, amounts) ==
    [t \in {tokens[i] : i \in DOMAIN tokens} |->
       amounts[CHOOSE i \in DOMAIN tokens :
                 /\ tokens[i] = t
                 /\ \A j \in DOMAIN tokens : tokens[j] = t => j <= i]]

\* getCumulatedTransfers: for each token, the sum of the amounts sent in it
getCumulatedTransfers(tokens, amounts) ==
    Cumulate(tokens, amounts, 1, <<>>)

\* checkCumulatedTransfers: the map is ranged over in no fixed order, so the
\* error is the one of any token that fails; the set holds NoErr alone when
\* none does
checkCumulatedTransfers(a, transfers) ==
    LET failed == {t \in DOMAIN transfers :
                     t \in a.unreadable \/ transfers[t] > a.balances[t]}
    IN IF failed = {} THEN {NoErr}
       ELSE {IF t \in a.unreadable THEN Err("BalanceOf", t)
             ELSE Err("errInsufficientErc20Balance", t) : t \in failed}

\* checkAvailableTokens
checkAvailableTokens(a, tokens, amounts) ==
    checkCumulatedTransfers(a, getCumulatedTransfers(tokens, amounts))

\* the signatures sent, with nothing cut off
reduceSignaturesKeepsAll(signatures, quorum) ==
    signatures

\* the signatures sent: the first quorum of those held
reduceSignatures(signatures, quorum) ==
    IF Len(signatures) > quorum THEN SubSeq(signatures, 1, quorum) ELSE signatures

\* ExecuteTransfer returning err before or after the signatures were asked for
TransferFailed(err, asked) ==
    [hash |-> "", err |-> err, asked |-> asked, sent |-> <<>>]

\* what ExecuteTransfer may return and what it may have sent
ExecuteTransferResults(a) ==
    IF a.batch = <<>> THEN {TransferFailed(Err("errNilBatch", ""), FALSE)}
    ELSE IF a.failing # "none" THEN {TransferFailed(Err(a.failing, ""), FALSE)}
    ELSE IF Len(a.signatures) < a.quorum
    THEN {TransferFailed(Err("errQuorumNotReached", ""), TRUE)}
    ELSE LET signatures == reduceSignatures(a.signatures, a.quorum)
             argLists == extractList(a, a.batch[1])
         IN IF argLists.err # NoErr THEN {TransferFailed(argLists.err, TRUE)}
            ELSE {IF err # NoErr THEN TransferFailed(err, TRUE)
                  ELSE IF a.submitFails
                  THEN [hash |-> "", err |-> Err("ExecuteTransfer", ""),
                        asked |-> TRUE,
                        sent |-> <<>>]
                  ELSE [hash |-> "txHash", err |-> NoErr, asked |-> TRUE,
                        sent |-> <<[tokens |-> argLists.tokens,
                                    amounts |-> argLists.amounts,
                                    signatures |-> signatures]>>] :
                  err \in checkAvailableTokens(a, argLists.tokens, argLists.amounts)}

\* client.ExecuteTransfer is called once
ExecuteTransfer ==
    /\ transferArgs # <<>>
    /\ transferResult = <<>>
    /\ \E r \in ExecuteTransferResults(transferArgs[1]) :
         transferResult' = <<r>>
    /\ UNCHANGED <<transferArgs, cloneVars, validatorVars, engineVars, stepVars,
                   relayerVars>>

\* no transfer has been asked for
IdleTransfer ==
    /\ transferArgs = <<>>
    /\ transferResult = <<>>

IdleClients == IdleClones /\ IdleValidator /\ IdleTransfer

\* ------------------------------ the engine running the Elrond->Eth graph
ElrondToEthIdentifiers ==
    {GettingPendingBatchFromElrond, SigningProposedTransferOnEthereum,
     WaitingForQuorumOnTransfer, WaitingTransferConfirmation, PerformingTransfer,
     SigningProposedSetStatusOnElrond, WaitingForQuorumOnSetStatus,
     PerformingSetStatus}

\* the graph: every step is registered under its own Identifier() and is
\* named by it here
ElrondToEthSteps == [i \in ElrondToEthIdentifiers |-> i]

\* the machine of the direction starts at the initial step
ElrondToEthArgs ==
    [stepsNil |-> FALSE, Steps |-> ElrondToEthSteps,
     StartStateIdentifier |-> initialStep, logNil |-> FALSE]

\* the Executor answers explored under the engine: the stored batch may
\* be nil, the was-performed check, the sign call and the perform call
\* may fail, the relayer may or may not be leader
FaultyStubs ==
    {s \in ExecutorStub :
        /\ s.actionID = actionID
        /\ ~s.actionIDErr /\ ~s.wasSigned /\ ~s.wasSignedErr
        /\ s.quorumReached /\ ~s.quorumErr
        /\ ~s.waitCancelled}

\* what Execute of the step registered under an identifier may return
\* against an Executor; the steps whose Execute is not modelled resolve
\* to some identifier of the graph
StepOutcomes(step, s) ==
    IF step = PerformingSetStatus THEN {performSetStatusStepExecute(s)}
    ELSE IF step = SigningProposedTransferOnEthereum
    THEN {signProposedTransferStepExecute(s)}
    ELSE IF step = WaitingTransferConfirmation
    THEN {waitTransferConfirmationStepExecute(s)}
    ELSE IF step = SigningProposedSetStatusOnElrond
    THEN {signProposedSetStatusStepExecute(s)}
    ELSE IF step = WaitingForQuorumOnSetStatus
    THEN {waitForQuorumOnSetStatusStepExecute(s)}
    ELSE {Outcome(id, <<>>) : id \in ElrondToEthIdentifiers}

\* executeStep, second half, on the Elrond->Eth graph: Execute of the
\* current step returns what the step's code returns against the
\* Executor's answers of this poll; the identifier is resolved against
\* the graph and the loop continues or stops on the error
ExecuteReturnElrondToEth(m) ==
    /\ pc[m] = "executing"
    /\ \E s \in FaultyStubs :
         \E out \in StepOutcomes(executedStep[m], s) :
            LET r == getNextStep(steps[m], out.next) IN
            /\ stub' = s
            /\ ran' = executedStep[m]
            /\ result' = out
            /\ lastReturned' = [lastReturned EXCEPT ![m] = out.next]
            /\ currentStep' = [currentStep EXCEPT ![m] = NextCurrentStep(@, r.step)]
            /\ stepErr' = [stepErr EXCEPT ![m] = r.err]
            /\ pc' = [pc EXCEPT ![m] = LoopAfterExecuteStep(r.err)]
    /\ inFlight' = [inFlight EXCEPT ![m] = @ - 1]
    /\ UNCHANGED <<args, newErr, handle, steps, cancelled, loopStatus,
                   timerReady, intervals, started, executedStep, closeCalls,
                   closeErr>>
    /\ UNCHANGED <<twinResult, relayerVars, clientVars>>

\* ---------------------------------------------------------- specifications
InitMachine(A) ==
    /\ args \in [Machines -> A]
    /\ pc = [m \in Machines |-> "new"]
    /\ newErr = [m \in Machines |-> NoErr]
    /\ handle = [m \in Machines |-> FALSE]
    /\ steps = [m \in Machines |-> EmptyStates]
    /\ currentStep = [m \in Machines |-> NilStep]
    /\ cancelled = [m \in Machines |-> FALSE]
    /\ loopStatus = [m \in Machines |-> FALSE]
    /\ timerReady = [m \in Machines |-> FALSE]
    /\ stepErr = [m \in Machines |-> NoErr]
    /\ intervals = [m \in Machines |-> 0]
    /\ started = [m \in Machines |-> 0]
    /\ inFlight = [m \in Machines |-> 0]
    /\ executedStep = [m \in Machines |-> NilStep]
    /\ lastReturned = [m \in Machines |-> NoIdentifier]
    /\ closeCalls = [m \in Machines |-> 0]
    /\ closeErr = [m \in Machines |-> NoErr]

\* one relayer direction on its own: only this machine is ever constructed
Single == "elrondToEth"

\* a complete two-step graph, used for the machine that is not under study
DefaultArgs ==
    [stepsNil |-> FALSE, Steps |-> [i \in Identifiers |-> IF i = "A" THEN "s1" ELSE "s2"],
     StartStateIdentifier |-> "A", logNil |-> FALSE]

Init ==
    /\ InitMachine(AllArgs)
    /\ \A m \in Machines \ {Single} : args[m] = DefaultArgs
    /\ IdleSteps
    /\ IdleRelayers
    /\ IdleClients

Next ==
    \/ NewStateMachine(Single)
    \/ LoopStart(Single)
    \/ SelectArm(Single)
    \/ TimerExpire(Single)
    \/ SelectDone(Single)
    \/ SelectTimer(Single)
    \/ SelectBlock(Single)
    \/ ExecuteBegin(Single)
    \/ ExecuteReturn(Single)
    \/ LoopExit(Single)
    \/ Close(Single)

Spec == Init /\ [][Next]_vars

\* the same machine under the scheduling the Go runtime provides: a
\* runnable goroutine eventually runs (weak fairness of every loop step,
\* an in-flight Execute included), and a select whose ctx.Done() case is
\* ready again and again eventually takes it, select choosing uniformly
\* at random among its ready cases (strong fairness of SelectDone)
LoopFairness(m) ==
    /\ WF_vars(LoopStart(m))
    /\ WF_vars(SelectArm(m))
    /\ WF_vars(SelectBlock(m))
    /\ WF_vars(SelectTimer(m))
    /\ SF_vars(SelectDone(m))
    /\ WF_vars(ExecuteBegin(m))
    /\ WF_vars(ExecuteReturn(m))
    /\ WF_vars(LoopExit(m))

FairSpec == Init /\ [][Next]_vars /\ LoopFairness(Single)

\* both directions running side by side
PairArgs ==
    {DefaultArgs,
     [stepsNil |-> FALSE, Steps |-> [i \in Identifiers |-> IF i = "A" THEN "s1" ELSE Absent],
      StartStateIdentifier |-> "A", logNil |-> FALSE]}

InitPair == InitMachine(PairArgs) /\ IdleSteps /\ IdleRelayers /\ IdleClients

NextPair ==
    \E m \in Machines :
        \/ NewStateMachine(m)
        \/ LoopStart(m)
        \/ SelectArm(m)
        \/ TimerExpire(m)
        \/ SelectDone(m)
        \/ SelectTimer(m)
        \/ SelectBlock(m)
        \/ ExecuteBegin(m)
        \/ ExecuteReturn(m)
        \/ LoopExit(m)
        \/ Close(m)

SpecPair == InitPair /\ [][NextPair]_vars

\* the engine of one relayer running the Elrond->Eth graph
InitElrondToEth ==
    InitMachine({ElrondToEthArgs}) /\ IdleSteps /\ IdleRelayers /\ IdleClients

NextElrondToEth ==
    \/ NewStateMachine(Single)
    \/ LoopStart(Single)
    \/ SelectArm(Single)
    \/ TimerExpire(Single)
    \/ SelectDone(Single)
    \/ SelectTimer(Single)
    \/ SelectBlock(Single)
    \/ ExecuteBegin(Single)
    \/ ExecuteReturnElrondToEth(Single)
    \/ LoopExit(Single)
    \/ Close(Single)

SpecElrondToEth == InitElrondToEth /\ [][NextElrondToEth]_vars

\* a batch of up to MaxDeposits deposits is cloned, then one of the two
\* batches is mutated
InitClone ==
    /\ InitMachine({DefaultArgs})
    /\ IdleSteps
    /\ IdleRelayers
    /\ IdleValidator
    /\ IdleTransfer
    /\ \E n \in 0..MaxDeposits :
         \E ins \in [1..n -> DepositInputs] :
            /\ heap = NewBatch(ins).heap
            /\ original = NewBatch(ins).ref
    /\ cloned = Nil
    /\ viewB = <<>>
    /\ viewC = <<>>
    /\ touched = "none"

NextClone ==
    \/ Clone
    \/ MutateByte
    \/ MutateAmount
    \/ MutateNonce
    \/ MutateList

SpecClone == InitClone /\ [][NextClone]_vars

\* a batch validator is asked for and, when built, validates a batch
InitValidator ==
    /\ InitMachine({DefaultArgs})
    /\ IdleSteps
    /\ IdleRelayers
    /\ IdleClones
    /\ IdleTransfer
    /\ bvArgs \in ArgsBatchValidator
    /\ bvState = "new"
    /\ bvErr = NoErr
    /\ requestTime = 0
    /\ reply = <<>>
    /\ validation = <<>>

NextValidator ==
    \/ NewBatchValidator
    \/ ValidateBatch

SpecValidator == InitValidator /\ [][NextValidator]_vars

\* ExecuteTransfer is called once, for every batch, quorum, set of signatures
\* and answer of the chain
InitTransfer ==
    /\ InitMachine({DefaultArgs})
    /\ IdleSteps
    /\ IdleRelayers
    /\ IdleClones
    /\ IdleValidator
    /\ \E a \in TransferArgs : transferArgs = <<a>>
    /\ transferResult = <<>>

NextTransfer ==
    \/ ExecuteTransfer

SpecTransfer == InitTransfer /\ [][NextTransfer]_vars

\* one Execute of one step of the Elrond->Eth graph, for every answer
\* the Executor may give
InitStep ==
    /\ InitMachine({DefaultArgs})
    /\ IdleRelayers
    /\ IdleClients
    /\ stub \in ExecutorStub
    /\ ~stub.quorumReached /\ ~stub.quorumErr
    /\ ran = "none"
    /\ result = NoOutcome
    /\ twinResult = NoOutcome

NextStep ==
    \/ RunSignProposedSetStatus
    \/ RunPerformSetStatus
    \/ RunSignProposedTransfer
    \/ RunWaitTransferConfirmation

SpecStep == InitStep /\ [][NextStep]_vars

\* the relayers enter the set-status phase, some having signed before,
\* one of them being the leader all along
InitRelayers ==
    /\ InitMachine({DefaultArgs})
    /\ IdleSteps
    /\ IdleClients
    /\ relayerStep = [r \in Relayers |-> SigningProposedSetStatusOnElrond]
    /\ signed \in SUBSET Relayers
    /\ txPending = FALSE
    /\ performed = FALSE
    /\ leader \in Relayers
    /\ performCalls = [r \in Relayers |-> 0]

NextRelayers ==
    \/ \E r \in Relayers : PollSign(r)
    \/ \E r \in Relayers : PollWaitQuorum(r)
    \/ \E r \in Relayers : PollPerform(r)
    \/ ChainExecute

SpecRelayers == InitRelayers /\ [][NextRelayers]_vars

\* every relayer's engine keeps polling and the chain executes what it
\* was sent
FairRelayers ==
    /\ SpecRelayers
    /\ \A r \in Relayers :
         WF_vars(PollSign(r)) /\ WF_vars(PollWaitQuorum(r)) /\ WF_vars(PollPerform(r))
    /\ WF_vars(ChainExecute)

\* ------------------------------------------------------------- properties
\* the fields of one machine and the state of its loop goroutine
MachineState(m) ==
    <<pc[m], handle[m], steps[m], currentStep[m], cancelled[m], loopStatus[m],
      timerReady[m], stepErr[m], intervals[m], started[m], inFlight[m],
      executedStep[m], lastReturned[m]>>

\* a step returned an identifier that is no key of the graph
Fatal(m) == stepErr[m] # NoErr

\* the step the graph stores under an identifier, nil when there is none
Stored(m, id) == IF id \in Keys(steps[m]) THEN steps[m][id] ELSE NilStep

\* C1 (as stated): in every state after a successful NewStateMachine the
\* current step is a value of the graph, never nil, whatever identifiers
\* the executed steps returned
C1_CurrentStepAlwaysInGraph ==
    handle[Single] => currentStep[Single] \in Values(steps[Single]) \ {NilStep}

\* C1 (amended): after a successful NewStateMachine the current step is a
\* non-nil value of the graph for as long as every executed step returned
\* a key of the graph; once a step returns an identifier that is no key,
\* the current step is nil and the loop is stopping or has terminated
C1_CurrentStepInGraphUntilFatal ==
    handle[Single] =>
        IF Fatal(Single)
        THEN /\ currentStep[Single] = NilStep
             /\ pc[Single] \in {"stopping", "terminated"}
             /\ lastReturned[Single] \notin Keys(steps[Single])
        ELSE /\ currentStep[Single] \in Values(steps[Single]) \ {NilStep}
             /\ currentStep[Single] =
                  Stored(Single, IF started[Single] - inFlight[Single] = 0
                                 THEN args[Single].StartStateIdentifier
                                 ELSE lastReturned[Single])

C1_Witness ==
    /\ handle[Single]
    /\ ~Fatal(Single)
    /\ started[Single] >= 2
    /\ inFlight[Single] = 0
    /\ lastReturned[Single] # args[Single].StartStateIdentifier
    /\ currentStep[Single] \in StepObjects

\* C2: when Execute returns an identifier that is no key of the graph the
\* loop stops for good: it goes to its exit, no Execute is begun on the
\* machine afterwards and the loop never returns to the select
C2_UnknownIdentifierStopsLoop ==
    [][/\ (pc[Single] = "executing" /\ pc'[Single] # "executing"
            /\ lastReturned'[Single] \notin Keys(steps[Single]))
          => (pc'[Single] = "stopping" /\ Fatal(Single)')
       /\ Fatal(Single)
          => /\ pc'[Single] \in {"stopping", "terminated"}
             /\ started'[Single] = started[Single]
             /\ inFlight'[Single] = 0
             /\ Fatal(Single)']_vars

C2_Witness ==
    /\ pc[Single] = "terminated"
    /\ Fatal(Single)
    /\ started[Single] >= 2
    /\ ~cancelled[Single]

\* C3: the first step executed is the one stored under the start
\* identifier, and every later executed step is the one the graph stores
\* under the identifier the previous executed step returned
C3_StepsFollowGraph ==
    [][started'[Single] # started[Single] =>
          /\ started'[Single] = started[Single] + 1
          /\ executedStep'[Single] =
               Stored(Single, IF started[Single] = 0
                              THEN args[Single].StartStateIdentifier
                              ELSE lastReturned[Single])
          /\ executedStep'[Single] # NilStep]_vars

C3_Witness ==
    /\ started[Single] >= 3
    /\ pc[Single] = "executing"
    /\ lastReturned[Single] # args[Single].StartStateIdentifier
    /\ executedStep[Single] = Stored(Single, lastReturned[Single])
    /\ executedStep[Single] # Stored(Single, args[Single].StartStateIdentifier)

\* C4: while the machine is not closed and every step returned a key of
\* the graph, each expiry of the poll timer is answered by exactly one
\* step: no step before the first expiry, never more steps than expiries,
\* at most the one step of the latest expiry still to begin, and as many
\* finished steps as expiries whenever the loop waits for its timer
C4_OneStepPerInterval ==
    (handle[Single] /\ ~cancelled[Single] /\ ~Fatal(Single)) =>
        /\ started[Single] <= intervals[Single]
        /\ intervals[Single] <= started[Single] + 1
        /\ (intervals[Single] = started[Single] + 1)
             <=> (timerReady[Single] \/ pc[Single] = "timer_chosen")
        /\ (pc[Single] \in {"spawned", "select", "blocked"}
              \/ (pc[Single] = "armed" /\ ~timerReady[Single]))
             => (started[Single] - inFlight[Single] = intervals[Single])
        /\ intervals[Single] = 0 => started[Single] = 0

C4_Witness ==
    /\ handle[Single]
    /\ ~cancelled[Single]
    /\ ~Fatal(Single)
    /\ pc[Single] = "blocked"
    /\ intervals[Single] = 3
    /\ started[Single] = 3
    /\ inFlight[Single] = 0

\* C5 (as stated): no Step.Execute call begins once Close() has raised the
\* cancellation signal
C5_NoExecuteAfterClose ==
    [][cancelled[Single] => started'[Single] = started[Single]]_vars

\* C6: Close() does not wait for the loop, and once Close() has been
\* called the running flag eventually becomes false and stays false
C6_CloseEventuallyStopsLoop ==
    [](closeCalls[Single] > 0 => <>[](~loopStatus[Single]))

C6_Witness ==
    /\ closeCalls[Single] > 0
    /\ cancelled[Single]
    /\ loopStatus[Single]
    /\ pc[Single] = "executing"

\* C7: Close() can be called in every state of a constructed machine,
\* returns nil every time, and a Close() of an already cancelled machine
\* changes nothing of the machine
C7_CloseIdempotentTotal ==
    /\ []((handle[Single] /\ closeCalls[Single] < MaxClose) => ENABLED Close(Single))
    /\ [][closeCalls'[Single] # closeCalls[Single] =>
            /\ closeErr'[Single] = NoErr
            /\ cancelled'[Single]
            /\ cancelled[Single] => MachineState(Single)' = MachineState(Single)]_vars

C7_Witness ==
    /\ closeCalls[Single] = 2
    /\ closeErr[Single] = NoErr
    /\ pc[Single] = "terminated"
    /\ Fatal(Single)

\* C8: at most one Step.Execute of a machine is in progress at any time,
\* and the current step changes only when the loop goroutine finishes a
\* step (or when the constructor sets it)
C8_StepsSequential ==
    /\ [](/\ inFlight[Single] <= 1
          /\ (inFlight[Single] = 1) <=> (pc[Single] = "executing"))
    /\ [][currentStep'[Single] # currentStep[Single] =>
            \/ pc[Single] = "new"
            \/ (pc[Single] = "executing" /\ inFlight[Single] = 1
                  /\ inFlight'[Single] = 0)]_vars

C8_Witness ==
    /\ pc[Single] = "executing"
    /\ inFlight[Single] = 1
    /\ started[Single] >= 2
    /\ currentStep[Single] # Stored(Single, args[Single].StartStateIdentifier)

\* C9: a step of one machine (its Close(), its fatal stop, any other)
\* leaves every field and the loop state of the other machine unchanged,
\* and a machine that neither was closed nor hit an unknown identifier
\* has a live loop whatever happened to the other one
C9_InstancesIndependent ==
    /\ [](\A o \in Machines :
            (handle[o] /\ closeCalls[o] = 0 /\ ~Fatal(o)) =>
                /\ ~cancelled[o]
                /\ pc[o] \notin {"closing", "stopping", "terminated"})
    /\ [][\A m \in Machines : \A o \in Machines \ {m} :
            (MachineState(m)' # MachineState(m) \/ closeCalls'[m] # closeCalls[m])
               => /\ MachineState(o)' = MachineState(o)
                  /\ closeCalls'[o] = closeCalls[o]
                  /\ closeErr'[o] = closeErr[o]]_vars

C9_Witness ==
    \E m \in Machines : \E o \in Machines \ {m} :
        /\ pc[m] = "terminated"
        /\ Fatal(m)
        /\ closeCalls[m] > 0
        /\ intervals[m] = 1
        /\ pc[o] = "executing"
        /\ started[o] = 3
        /\ ~cancelled[o]

\* C10 (as stated): each invalid argument gives its own error, whatever
\* the other arguments are
C10_ErrorPerInvalidArgument ==
    pc[Single] # "new" =>
        LET a == args[Single] IN
        /\ a.stepsNil => newErr[Single] = ErrNilStepsMap
        /\ \A x \in Identifiers :
             (~a.stepsNil /\ a.Steps[x] = NilStep) => newErr[Single] = ErrNilStep(x)
        /\ a.logNil => newErr[Single] = ErrNilLogger
        /\ a.StartStateIdentifier \notin Keys(a.Steps)
             => newErr[Single].base = "ErrStepNotFound"
        /\ (~a.stepsNil /\ (\A x \in Identifiers : a.Steps[x] # NilStep)
              /\ ~a.logNil /\ a.StartStateIdentifier \in Keys(a.Steps))
             => (newErr[Single] = NoErr /\ handle[Single])

\* C10 (amended): the checks run in the order nil Steps, nil step, nil
\* Log, unknown start identifier, and the first that fails decides the
\* error: ErrNilStepsMap; ErrNilStep naming a key that holds a nil step;
\* ErrNilLogger; ErrStepNotFound naming the start identifier; with none
\* failing construction succeeds and returns a machine
C10_FirstFailingCheckDecides ==
    pc[Single] # "new" =>
        LET a == args[Single]
            e == newErr[Single]
            nils == {x \in Identifiers : a.Steps[x] = NilStep}
        IN
        /\ IF a.stepsNil THEN e = ErrNilStepsMap
           ELSE IF nils # {} THEN e.base = "ErrNilStep" /\ e.id \in nils
           ELSE IF a.logNil THEN e = ErrNilLogger
           ELSE IF a.StartStateIdentifier \notin Keys(a.Steps)
                THEN e = ErrStepNotFound(a.StartStateIdentifier)
           ELSE e = NoErr
        /\ handle[Single] <=> (e = NoErr)
        /\ (e # NoErr) <=> (pc[Single] = "failed")

C10_Witness ==
    /\ pc[Single] = "failed"
    /\ args[Single].stepsNil
    /\ args[Single].logNil
    /\ newErr[Single] = ErrNilStepsMap

\* C11: when NewStateMachine returns an error nothing starts, then or
\* later: no machine is returned, no loop runs, no Execute is called
C11_FailedConstructionStartsNothing ==
    /\ [](newErr[Single] # NoErr =>
            /\ pc[Single] = "failed"
            /\ ~handle[Single]
            /\ ~loopStatus[Single]
            /\ currentStep[Single] = NilStep
            /\ started[Single] = 0
            /\ inFlight[Single] = 0
            /\ intervals[Single] = 0
            /\ closeCalls[Single] = 0)
    /\ [][newErr[Single] # NoErr => MachineState(Single)' = MachineState(Single)]_vars

C11_Witness ==
    /\ pc[Single] = "failed"
    /\ newErr[Single] = ErrStepNotFound(args[Single].StartStateIdentifier)
    /\ ~args[Single].logNil
    /\ Keys(args[Single].Steps) # {}

\* the sub-calls of the sign-proposed-set-status step up to the sign call
\* all succeeded
SetStatusSignable(s) ==
    /\ s.batch
    /\ ~s.actionIDErr
    /\ s.actionID # InvalidActionID
    /\ ~s.wasSignedErr

\* C12: the sign-proposed-set-status step returns
\* WaitingForQuorumOnSetStatus exactly when the batch is stored, the
\* action id lookup gives a usable id without error, the was-signed check
\* gives no error and the relayer either signed before or signs without
\* error; otherwise it returns the initial step; it never returns an error
C12_SignSetStatusNext ==
    ran = SigningProposedSetStatusOnElrond =>
        /\ result.next =
             IF SetStatusSignable(stub) /\ (stub.wasSigned \/ ~stub.signErr)
             THEN WaitingForQuorumOnSetStatus
             ELSE initialStep
        /\ result.err = NoErr

C12_Witness ==
    /\ ran = SigningProposedSetStatusOnElrond
    /\ stub.wasSigned
    /\ stub.signErr
    /\ result.next = WaitingForQuorumOnSetStatus

\* C13: one Execute of the sign-proposed-set-status step calls
\* SignActionOnElrond once when the batch is stored, the action id is
\* usable and the was-signed check answered (false, nil), and not at all
\* otherwise; a relayer that signed before and one that signs now go to
\* the same identifier
C13_SignSetStatusCalls ==
    ran = SigningProposedSetStatusOnElrond =>
        /\ Count(result.calls, "SignActionOnElrond") =
             IF SetStatusSignable(stub) /\ ~stub.wasSigned THEN 1 ELSE 0
        /\ (SetStatusSignable(stub) /\ (stub.wasSigned \/ ~stub.signErr))
             => result.next = WaitingForQuorumOnSetStatus

C13_Witness ==
    /\ ran = SigningProposedSetStatusOnElrond
    /\ SetStatusSignable(stub)
    /\ ~stub.wasSigned
    /\ ~stub.signErr
    /\ Count(result.calls, "SignActionOnElrond") = 1
    /\ result.next = WaitingForQuorumOnSetStatus

\* C14: performSetStatusStep.Execute returns GettingPendingBatchFromElrond
\* when the was-performed check fails, when the action was performed, and
\* when the leader's perform call fails; it returns PerformingSetStatus
\* when the relayer is not leader and when the leader's perform call
\* succeeds; it returns nothing else
C14_PerformSetStatusNext ==
    ran = PerformingSetStatus =>
        /\ result.next =
             IF stub.wasPerformedErr THEN GettingPendingBatchFromElrond
             ELSE IF stub.wasPerformed THEN GettingPendingBatchFromElrond
             ELSE IF ~stub.leader THEN PerformingSetStatus
             ELSE IF stub.performErr THEN GettingPendingBatchFromElrond
             ELSE PerformingSetStatus
        /\ result.next \in {GettingPendingBatchFromElrond, PerformingSetStatus}

C14_Witness ==
    /\ ran = PerformingSetStatus
    /\ ~stub.wasPerformedErr
    /\ ~stub.wasPerformed
    /\ stub.leader
    /\ stub.performErr
    /\ result.next = GettingPendingBatchFromElrond

\* C15: one Execute of performSetStatusStep calls PerformActionOnElrond at
\* most once, and only after WasActionPerformedOnElrond answered
\* (false, nil) and MyTurnAsLeader answered true in that same Execute
C15_PerformOnlyByLeaderAfterCheck ==
    ran = PerformingSetStatus =>
        /\ Count(result.calls, "PerformActionOnElrond") <= 1
        /\ result.calls[1] = "WasActionPerformedOnElrond"
        /\ Count(result.calls, "PerformActionOnElrond") = 1 =>
             /\ ~stub.wasPerformedErr
             /\ ~stub.wasPerformed
             /\ stub.leader
             /\ result.calls[2] = "MyTurnAsLeader"
             /\ result.calls[3] = "PerformActionOnElrond"
        /\ (~stub.leader \/ stub.wasPerformed) =>
             Count(result.calls, "PerformActionOnElrond") = 0

C15_Witness ==
    /\ ran = PerformingSetStatus
    /\ stub.leader
    /\ ~stub.wasPerformed
    /\ ~stub.wasPerformedErr
    /\ Count(result.calls, "PerformActionOnElrond") = 1

\* C16 (as stated): once PerformActionOnElrond has succeeded the relayer
\* never calls it again, and its next step away from PerformingSetStatus
\* is to GettingPendingBatchFromElrond
C16_NoSecondPerform ==
    [][\A r \in Relayers :
          performCalls[r] >= 1 =>
              /\ performCalls'[r] = performCalls[r]
              /\ relayerStep'[r] \in {relayerStep[r], GettingPendingBatchFromElrond}]_vars

\* C16 (amended): a successful PerformActionOnElrond leaves the relayer at
\* PerformingSetStatus; a later poll that observes the action as executed
\* goes to GettingPendingBatchFromElrond without calling
\* PerformActionOnElrond; the relayer calls it again only in a poll that
\* observes the action as not yet executed while it is the leader
C16_PerformThenRecheck ==
    [][\A r \in Relayers :
          /\ performCalls'[r] # performCalls[r] =>
               /\ relayerStep[r] = PerformingSetStatus
               /\ relayerStep'[r] = PerformingSetStatus
               /\ ~performed
               /\ leader = r
          /\ (performed /\ relayerStep[r] = PerformingSetStatus
                /\ relayerStep'[r] # relayerStep[r]) =>
               /\ relayerStep'[r] = GettingPendingBatchFromElrond
               /\ performCalls'[r] = performCalls[r]
          /\ performed => performCalls'[r] = performCalls[r]]_vars

C16_Witness ==
    \E r \in Relayers :
        /\ performCalls[r] = 1
        /\ performed
        /\ relayerStep[r] = GettingPendingBatchFromElrond

\* C17 (as stated): signProposedTransferStep calls SignTransferOnEthereum
\* only when a check found, without error, that the relayer has not
\* signed yet; a relayer that has signed makes no sign call and still
\* goes to WaitingForQuorumOnTransfer
C17_SignTransferOnlyAfterCheck ==
    ran = SigningProposedTransferOnEthereum =>
        /\ Count(result.calls, "SignTransferOnEthereum") > 0 =>
             (~stub.wasSigned /\ ~stub.wasSignedErr)
        /\ (stub.batch /\ stub.wasSigned /\ ~stub.wasSignedErr) =>
             /\ Count(result.calls, "SignTransferOnEthereum") = 0
             /\ result.next = WaitingForQuorumOnTransfer

\* C18: the two sign steps do not ask whose turn it is: against two
\* Executors that differ in MyTurnAsLeader only they make the same calls
\* and return the same identifier, so a relayer that is not leader goes
\* on to waiting for quorum when its calls succeed
C18_SigningNotLeaderGated ==
    ran \in {SigningProposedTransferOnEthereum, SigningProposedSetStatusOnElrond} =>
        /\ result = twinResult
        /\ Count(result.calls, "MyTurnAsLeader") = 0
        /\ (ran = SigningProposedTransferOnEthereum /\ stub.batch /\ ~stub.signErr)
             => result.next = WaitingForQuorumOnTransfer
        /\ (ran = SigningProposedSetStatusOnElrond /\ SetStatusSignable(stub)
              /\ ~stub.signErr)
             => result.next = WaitingForQuorumOnSetStatus

C18_Witness ==
    /\ ran = SigningProposedTransferOnEthereum
    /\ ~stub.leader
    /\ Count(result.calls, "SignTransferOnEthereum") = 1
    /\ result.next = WaitingForQuorumOnTransfer
    /\ twinResult.next = WaitingForQuorumOnTransfer

\* C19: with no Executor call failing and one relayer being the leader
\* all along, the relayers eventually have a quorum of signatures on the
\* chain, the action is performed, and every relayer has left the perform
\* step for GettingPendingBatchFromElrond, for good
C19_SetStatusPhaseCompletes ==
    <>[](/\ Cardinality(signed) >= Quorum
         /\ performed
         /\ \A r \in Relayers : relayerStep[r] = GettingPendingBatchFromElrond)

C19_Witness ==
    /\ Cardinality(signed) >= Quorum
    /\ performed
    /\ \A r \in Relayers : relayerStep[r] = GettingPendingBatchFromElrond
    /\ performCalls[leader] >= 1
    /\ \A r \in Relayers \ {leader} : performCalls[r] = 0 /\ r \in signed

\* C20: waitTransferConfirmationStep.Execute calls
\* WaitForTransferConfirmation once and returns PerformingTransfer however
\* the wait ended, never its own or the initial identifier
C20_WaitConfirmationAdvances ==
    ran = WaitingTransferConfirmation =>
        /\ result.calls = <<"WaitForTransferConfirmation">>
        /\ result.next = PerformingTransfer
        /\ result.next \notin {WaitingTransferConfirmation, initialStep}

C20_Witness ==
    /\ ran = WaitingTransferConfirmation
    /\ stub.waitCancelled
    /\ result.next = PerformingTransfer
    /\ Count(result.calls, "WaitForTransferConfirmation") = 1

\* the Execute that returned last ran into an operational error: a nil
\* stored batch, a failing was-performed check, a failing sign call or a
\* failing perform call
OperationalError ==
    \/ /\ ran = PerformingSetStatus
       /\ \/ stub.wasPerformedErr
          \/ ~stub.wasPerformed /\ stub.leader /\ stub.performErr
    \/ /\ ran \in {SigningProposedTransferOnEthereum, SigningProposedSetStatusOnElrond}
       /\ ~stub.batch \/ stub.signErr

\* C21: when a step of the Elrond->Eth graph runs into an operational
\* error the loop does not stop: the step returns
\* GettingPendingBatchFromElrond, the engine resolves it without error
\* and goes back to its select, and the next Execute it begins is that
\* of the step registered under GettingPendingBatchFromElrond
C21_OperationalErrorRestartsCycle ==
    /\ [](OperationalError =>
            /\ result.next = GettingPendingBatchFromElrond
            /\ lastReturned[Single] = GettingPendingBatchFromElrond
            /\ stepErr[Single] = NoErr
            /\ pc[Single] # "stopping"
            /\ pc[Single] \in {"closing", "terminated"} => cancelled[Single]
            /\ currentStep[Single] = ElrondToEthSteps[GettingPendingBatchFromElrond])
    /\ [][(OperationalError' /\ pc[Single] = "executing" /\ pc'[Single] # "executing")
            => pc'[Single] = "select"]_vars
    /\ [][(OperationalError /\ started'[Single] # started[Single])
            => executedStep'[Single] = ElrondToEthSteps[GettingPendingBatchFromElrond]]_vars

C21_Witness ==
    /\ ran = PerformingSetStatus
    /\ stub.leader /\ stub.performErr /\ ~stub.wasPerformed /\ ~stub.wasPerformedErr
    /\ pc[Single] = "executing"
    /\ executedStep[Single] = GettingPendingBatchFromElrond
    /\ loopStatus[Single]

\* C22 (as stated): when Clone has returned, the clone has the field
\* values of the original: the same ID, the same deposits in the same
\* order, equal nonces, bytes, displayable strings and amounts
C22_CloneEqualsOriginal ==
    cloned # Nil => viewC = viewB

\* C23: after C = B.Clone() a mutation made through C (an entry of its
\* deposit list, a field of a deposit, a byte of ToBytes, FromBytes or
\* TokenBytes, the value of an Amount) leaves every field value of B as
\* it was, and a mutation made through B leaves those of C as they were
C23_CloneIsIndependent ==
    /\ touched = "C" =>
         (BatchView(heap, original) = viewB /\ BatchView(heap, cloned) # viewC)
    /\ touched = "B" =>
         (BatchView(heap, cloned) = viewC /\ BatchView(heap, original) # viewB)

C23_Witness ==
    /\ touched = "C"
    /\ Len(DepositsOf(heap, cloned)) = MaxDeposits
    /\ viewC.Deposits[1][1].Amount = <<5>>
    /\ DepositView(heap, DepositsOf(heap, cloned)[1])[1].Amount = <<6>>
    /\ BatchView(heap, original) = viewB

\* the request of the last ValidateBatch was marshalled, got a response
\* in time and the body of the response is JSON that fits the response
\* type
Decoded ==
    /\ ~reply[1].marshalErr
    /\ reply[1].kind = "response"
    /\ \/ reply[1].body.syntax = "null"
       \/ reply[1].body.syntax = "object" /\ reply[1].body.valid # "string"

\* C24: ValidateBatch returns (v, nil), v being the "valid" field of the
\* response, exactly when the batch was marshalled, the request got its
\* response within the timeout and the body was decoded; a marshal
\* failure, a transport failure, a timeout, an empty or a malformed body
\* give (false, error); true never comes with an error and a failure
\* never comes as (false, nil)
C24_ValidateBatchReportsFailures ==
    validation # <<>> =>
        /\ validation[1].err = NoErr <=> Decoded
        /\ validation[1].err = NoErr =>
             validation[1].valid = (reply[1].body.valid = "true")
        /\ validation[1].err # NoErr => ~validation[1].valid
        /\ (reply[1].kind = "response" /\ reply[1].body.syntax = "empty")
             => validation[1].err # NoErr

C24_Witness ==
    /\ validation # <<>>
    /\ ~reply[1].marshalErr
    /\ reply[1].kind = "response"
    /\ reply[1].status = 200
    /\ reply[1].body.syntax = "garbage"
    /\ validation[1] = [valid |-> FALSE, err |-> Err("during unmarshal", "")]

\* C25 (as stated): a response whose status code is not in 200..299 makes
\* ValidateBatch return (false, error), whatever its body
C25_NonSuccessStatusIsError ==
    (/\ validation # <<>>
     /\ ~reply[1].marshalErr
     /\ reply[1].kind = "response"
     /\ reply[1].status \notin 200..299)
        => (~validation[1].valid /\ validation[1].err # NoErr)

\* C26: NewBatchValidator succeeds exactly when SourceChain and
\* DestinationChain are each Ethereum or Elrond and RequestTime is at
\* least one millisecond; otherwise it returns no validator and an error
\* wrapping ErrInvalidValue; a validator that exists has a request time
\* of at least one millisecond
C26_ValidatorArgsChecked ==
    bvState # "new" =>
        /\ bvState = "built" <=>
             /\ bvArgs.SourceChain \in {Ethereum, Elrond}
             /\ bvArgs.DestinationChain \in {Ethereum, Elrond}
             /\ bvArgs.RequestTime >= 1000000
        /\ bvState = "built" =>
             /\ bvErr = NoErr
             /\ requestTime = bvArgs.RequestTime
             /\ requestTime >= 1000000
        /\ bvState = "rejected" =>
             /\ bvErr.base = "ErrInvalidValue"
             /\ requestTime = 0
             /\ validation = <<>>

C26_Witness ==
    /\ bvState = "rejected"
    /\ bvArgs.SourceChain = Elrond
    /\ bvArgs.DestinationChain = Ethereum
    /\ bvArgs.RequestTime = 999999
    /\ bvErr = ErrInvalidValue("RequestTime")

\* C27: signProposedTransferStep.Execute returns
\* GettingPendingBatchFromElrond without a sign call when no batch is
\* stored, GettingPendingBatchFromElrond when the sign call fails and
\* WaitingForQuorumOnTransfer when the batch is stored and the sign call
\* succeeds; it never returns its own identifier
C27_SignTransferNext ==
    ran = SigningProposedTransferOnEthereum =>
        /\ result.next =
             IF ~stub.batch THEN GettingPendingBatchFromElrond
             ELSE IF stub.signErr THEN GettingPendingBatchFromElrond
             ELSE WaitingForQuorumOnTransfer
        /\ ~stub.batch => Count(result.calls, "SignTransferOnEthereum") = 0
        /\ result.next # SigningProposedTransferOnEthereum

C27_Witness ==
    /\ ran = SigningProposedTransferOnEthereum
    /\ ~stub.batch
    /\ stub.signErr
    /\ result.next = GettingPendingBatchFromElrond
    /\ Count(result.calls, "SignTransferOnEthereum") = 0

\* the loop goroutine has left the for loop
Exited(m) == pc[m] \in {"closing", "stopping", "terminated"}

\* the loop goroutine is between its first statement and its return
InLoop(m) ==
    pc[m] \in {"select", "armed", "blocked", "timer_chosen", "executing",
               "closing", "stopping"}

\* C28: the loop of a constructed machine leaves its for loop only
\* because Close() cancelled its context or because a step returned an
\* identifier that is no key of the graph; it leaves through the
\* ctx.Done() case only when cancelled and through the error return only
\* on the unknown identifier
C28_LoopExitsOnlyOnCloseOrUnknown ==
    /\ Exited(Single) =>
         \/ cancelled[Single] /\ closeCalls[Single] > 0
         \/ /\ stepErr[Single] = ErrStepNotFound(lastReturned[Single])
            /\ lastReturned[Single] \notin Keys(steps[Single])
    /\ pc[Single] = "closing" => cancelled[Single]
    /\ pc[Single] = "stopping" => Fatal(Single)
    /\ (handle[Single] /\ ~cancelled[Single] /\ ~Fatal(Single)) => ~Exited(Single)

C28_Witness ==
    /\ pc[Single] = "select"
    /\ started[Single] = MaxExec - 1
    /\ ~cancelled[Single]
    /\ ~Fatal(Single)

\* C29 (as stated): the running flag is true in every state in which the
\* constructor has started the loop and the loop has not yet exited
C29_FlagTrueOnceStarted ==
    (handle[Single] /\ pc[Single] # "terminated") => loopStatus[Single]

\* C29 (amended): the running flag is true exactly from the first
\* statement of the loop goroutine until the loop has returned, whenever
\* a step is executing in particular; it is false between the return of
\* the constructor and that first statement, and false after the loop
\* has returned, never becoming true again
C29_FlagFollowsLoopGoroutine ==
    /\ [](loopStatus[Single] <=> InLoop(Single))
    /\ [](inFlight[Single] > 0 => loopStatus[Single])
    /\ [][pc[Single] = "terminated" => ~loopStatus[Single]']_vars

C29_Witness ==
    /\ pc[Single] = "terminated"
    /\ ~loopStatus[Single]
    /\ started[Single] > 0
    /\ closeCalls[Single] = MaxClose

\* C30 (as stated): a machine that was constructed never stops on an
\* identifier that is no key of its graph
C30_NoUnknownIdentifierAfterStartup ==
    handle[Single] => ~Fatal(Single)

\* C30 (amended): the constructor validates that the graph is not nil,
\* that no key holds a nil step, that the logger is not nil and that the
\* start identifier is a key, and nothing else; whether the steps return
\* keys only is found out at first occurrence, when the machine stops on
\* the identifier a step returned
C30_StartupChecksShapeOnly ==
    /\ pc[Single] # "new" =>
         (handle[Single] <=>
            /\ ~args[Single].stepsNil
            /\ NilStep \notin Values(args[Single].Steps)
            /\ ~args[Single].logNil
            /\ args[Single].StartStateIdentifier \in Keys(args[Single].Steps))
    /\ Fatal(Single) =>
         /\ handle[Single]
         /\ started[Single] > 0
         /\ lastReturned[Single] \notin Keys(steps[Single])

C30_Witness ==
    /\ handle[Single]
    /\ Keys(steps[Single]) = Identifiers
    /\ Fatal(Single)
    /\ started[Single] = 1
    /\ pc[Single] = "terminated"

\* the call of ExecuteTransfer, the batch it was given and what it answered
Transfer == transferArgs[1]

Transferred == transferResult[1]

Returned == transferArgs # <<>> /\ transferResult # <<>>

\* the ERC20 tokens of the deposits of the batch
BatchTokens ==
    IF Transfer.batch = <<>> THEN {}
    ELSE {ConvertToken(Transfer.batch[1].Deposits[i].TokenBytes) :
            i \in DOMAIN Transfer.batch[1].Deposits}

\* the amounts of the first n deposits that are in one token, added up
RECURSIVE Required(_, _, _)
Required(deposits, token, n) ==
    IF n = 0 THEN 0
    ELSE Required(deposits, token, n - 1)
           + (IF ConvertToken(deposits[n].TokenBytes) = token
              THEN deposits[n].Amount ELSE 0)

\* what the batch sends in one token
RequiredOf(token) ==
    Required(Transfer.batch[1].Deposits, token, Len(Transfer.batch[1].Deposits))

\* the safe contract lacks tokens for the batch, or a balance cannot be read
Shortfall(token) == RequiredOf(token) > Transfer.balances[token]

\* C31: the transfer transaction is submitted only when the signature holder
\* supplied at least quorum signatures, and then carries exactly the first
\* quorum of them; when the holder supplied fewer than quorum, ExecuteTransfer
\* returns errQuorumNotReached and submits nothing
C31_SubmitsQuorumSignatures ==
    Returned =>
      /\ Transferred.sent # <<>> =>
           /\ Transferred.asked
           /\ Len(Transfer.signatures) >= Transfer.quorum
           /\ Len(Transferred.sent[1].signatures) = Transfer.quorum
           /\ Transferred.sent[1].signatures
                = SubSeq(Transfer.signatures, 1, Transfer.quorum)
      /\ Len(Transfer.signatures) < Transfer.quorum =>
           /\ Transferred.sent = <<>>
           /\ Transferred.hash = ""
           /\ Transferred.asked => Transferred.err = Err("errQuorumNotReached", "")

\* more signatures than the quorum were held and the first quorum were sent
C31_Witness ==
    /\ Returned
    /\ Transferred.sent # <<>>
    /\ Transfer.quorum > 0
    /\ Len(Transfer.signatures) > Transfer.quorum
    /\ Transferred.sent[1].signatures = Signatures(Transfer.quorum)

\* C32: the transfer transaction is submitted only if, for every token of
\* the batch, the amounts of all deposits in that token add up to no more than
\* the safe contract's balance of it, which could be read; when a sum exceeds
\* the balance or a balance cannot be read, ExecuteTransfer returns an error
\* and submits nothing, and the error is errInsufficientErc20Balance when a
\* shortfall is all that stands in the way
C32_SubmitsOnlyCoveredAmounts ==
    Returned =>
      /\ Transferred.sent # <<>> =>
           \A t \in BatchTokens :
              /\ t \notin Transfer.unreadable
              /\ RequiredOf(t) <= Transfer.balances[t]
      /\ (\E t \in BatchTokens : t \in Transfer.unreadable \/ Shortfall(t)) =>
           /\ Transferred.sent = <<>>
           /\ Transferred.hash = ""
           /\ Transferred.err # NoErr
      /\ ( /\ Transfer.batch # <<>>
           /\ Transfer.failing = "none"
           /\ Len(Transfer.signatures) >= Transfer.quorum
           /\ ~Transfer.convertFails
           /\ BatchTokens \cap Transfer.unreadable = {}
           /\ \E t \in BatchTokens : Shortfall(t) ) =>
           /\ Transferred.err.base = "errInsufficientErc20Balance"
           /\ Transferred.err.id \in {t \in BatchTokens : Shortfall(t)}

\* two deposits in one token, each within the balance, add up to more than
\* it, and the transfer is refused
C32_Witness ==
    /\ Returned
    /\ Transfer.batch # <<>>
    /\ Len(Transfer.batch[1].Deposits) >= 2
    /\ \E t \in BatchTokens :
         /\ Shortfall(t)
         /\ \A i \in DOMAIN Transfer.batch[1].Deposits :
              /\ ConvertToken(Transfer.batch[1].Deposits[i].TokenBytes) = t
              /\ Transfer.batch[1].Deposits[i].Amount <= Transfer.balances[t]
    /\ Transferred.err.base = "errInsufficientErc20Balance"
    /\ Transferred.sent = <<>>

====
